---- MODULE Spec2Model ----
(***************************************************************************)
(* Model of the Beggar card game backend (GameService): the game registry, *)
(* the turn/round state machine, the pattern validator, the title assigner *)
(* and the per-game turn timer.                                            *)
(***************************************************************************)
EXTENDS Integers, Sequences, FiniteSets, TLC

VARIABLES games, turnTimers, botTimers, crashed, last, ranksInDeck, suitsInDeck,
          vin, vout, din, dout, quiet, bin, bout

vars == <<games, turnTimers, botTimers, crashed, last, ranksInDeck, suitsInDeck,
          vin, vout, din, dout, quiet, bin, bout>>

-----------------------------------------------------------------------------
(* Bounds of the model                                                     *)

\* number of ranks of the deck that are modelled, lowest first (the program has 13)
NumRanks == 3
\* number of the highest ranks added to the validator's inputs
NumHighRanks == 2
\* number of player names that may ask to join
NumNames == 3
\* number of outcomes of the random stream that shuffle and deal draw from
NumSeeds == 1
\* longest play a client submits
MaxPlayLen == 3
\* longest pile reached in test mode, where hands need not shrink
MaxPile == 2
\* a client picks the cards of a play among the first MaxPick cards of its hand
MaxPick == 4
\* the seats that send leave commands are the first NumLeavers seats
NumLeavers == 1

-----------------------------------------------------------------------------
(* Program constants                                                       *)

MIN_PLAYERS == 3
MAX_PLAYERS == 6

Null == "null"

Suits == <<"hearts", "diamonds", "clubs", "spades">>
Ranks == <<"3", "4", "5", "6", "7", "8", "9", "10", "J", "Q", "K", "A", "2">>

GameIds == {"g"}
NamePool == <<"a", "b", "c", "d", "e", "f", "g">>
Names == {NamePool[i] : i \in 1..NumNames}

-----------------------------------------------------------------------------
(* Sequence helpers, after the methods of Array                            *)

Range(s) == {s[i] : i \in 1..Len(s)}

\* Array.prototype.filter
RECURSIVE Filter(_, _)
Filter(s, keep) ==
  IF s = <<>> THEN <<>>
  ELSE IF keep[1] THEN <<s[1]>> \o Filter(Tail(s), Tail(keep))
       ELSE Filter(Tail(s), Tail(keep))

\* Array.prototype.indexOf, 0-based, -1 when absent
RECURSIVE indexOfFrom(_, _, _)
indexOfFrom(s, x, i) ==
  IF i > Len(s) THEN -1
  ELSE IF s[i] = x THEN i - 1
  ELSE indexOfFrom(s, x, i + 1)

indexOf(s, x) == indexOfFrom(s, x, 1)

Min(a, b) == IF a < b THEN a ELSE b
Max(a, b) == IF a > b THEN a ELSE b

\* number of occurrences of x in s
Count(s, x) == Cardinality({i \in 1..Len(s) : s[i] = x})

-----------------------------------------------------------------------------
(* Card model                                                              *)

Card(suit, rank, isJoker, isDetails, assignedRank, assignedSuit) ==
  [suit |-> suit, rank |-> rank, isJoker |-> isJoker, isDetails |-> isDetails,
   assignedRank |-> assignedRank, assignedSuit |-> assignedSuit]

\* the suits of the deck that are modelled, in the program's order; suitsInDeck
\* is fixed by the initial state
DeckSuits == SubSeq(Suits, 1, suitsInDeck)
NumSuits == Len(DeckSuits)
\* the ranks of the deck that are modelled, lowest first; ranksInDeck is fixed
\* by the initial state
DeckRanks == SubSeq(Ranks, 1, ranksInDeck)

Joker1 == Card("joker1", Null, TRUE, FALSE, Null, Null)
Joker2 == Card("joker2", Null, TRUE, FALSE, Null, Null)
Details == Card(Null, Null, FALSE, TRUE, Null, Null)

\* a faulty variant of the deck below: the second joker is a copy of the first
createDeckOneJoker ==
  [i \in 1..(NumSuits * ranksInDeck) |->
     Card(DeckSuits[((i - 1) \div ranksInDeck) + 1],
          DeckRanks[((i - 1) % ranksInDeck) + 1], FALSE, FALSE, Null, Null)]
  \o <<Joker1, Joker1, Details>>

\* suits.flatMap(suit => ranks.map(rank => card)) followed by the two jokers
\* and the details card
createDeck ==
  [i \in 1..(NumSuits * ranksInDeck) |->
     Card(DeckSuits[((i - 1) \div ranksInDeck) + 1],
          DeckRanks[((i - 1) % ranksInDeck) + 1], FALSE, FALSE, Null, Null)]
  \o <<Joker1, Joker2, Details>>

\* `${suit ?? 'none'}-${rank ?? 'none'}-${isJoker}-${isDetails}`
cardId(card) ==
  <<IF card.suit = Null THEN "none" ELSE card.suit,
    IF card.rank = Null THEN "none" ELSE card.rank,
    card.isJoker, card.isDetails>>

cardIds(cards) == [i \in 1..Len(cards) |-> cardId(cards[i])]

\* a faulty variant of the comparison below: only the lengths are compared
sameSortedIdsByLength(a, b) == Len(a) = Len(b)

\* a.map(cardId).sort() and b.map(cardId).sort() have the same length and
\* agree at every index
sameSortedIds(a, b) ==
  /\ Len(a) = Len(b)
  /\ \A x \in Range(cardIds(a)) \cup Range(cardIds(b)) :
       Count(cardIds(a), x) = Count(cardIds(b), x)

getCardValue(card) ==
  IF card.isDetails THEN 999
  ELSE LET rank == IF card.isJoker THEN card.assignedRank ELSE card.rank
       IN IF rank # Null THEN indexOf(Ranks, rank) + 3 ELSE 0

\* rank and suit after the joker assignment is applied
effRank(c) == IF c.isJoker THEN c.assignedRank ELSE c.rank
effSuit(c) == IF c.isJoker THEN c.assignedSuit ELSE c.suit

\* [...cards].sort((a, b) => getCardValue(a) - getCardValue(b)), a stable sort
RECURSIVE insertByValue(_, _)
insertByValue(c, sorted) ==
  IF sorted = <<>> THEN <<c>>
  ELSE IF getCardValue(sorted[1]) <= getCardValue(c)
       THEN <<sorted[1]>> \o insertByValue(c, Tail(sorted))
       ELSE <<c>> \o sorted

RECURSIVE sortByValue(_)
sortByValue(cards) ==
  IF cards = <<>> THEN <<>>
  ELSE insertByValue(cards[Len(cards)], sortByValue(SubSeq(cards, 1, Len(cards) - 1)))

hasDetails(cards) == \E i \in 1..Len(cards) : cards[i].isDetails

sameRank(cards) == \A i \in 1..Len(cards) : effRank(cards[i]) = effRank(cards[1])

\* a faulty variant of the test below: the suits are not compared
consecutiveAnySuit(cards) ==
  LET sortedCards == sortByValue(cards)
  IN \A i \in 2..Len(sortedCards) :
       getCardValue(sortedCards[i]) = getCardValue(sortedCards[i - 1]) + 1

\* isConsecutive && sameSuit of validatePattern
consecutiveSameSuit(cards) ==
  LET sortedCards == sortByValue(cards)
  IN /\ \A i \in 2..Len(sortedCards) :
          getCardValue(sortedCards[i]) = getCardValue(sortedCards[i - 1]) + 1
     /\ \A i \in 2..Len(sortedCards) :
          effSuit(sortedCards[i]) = effSuit(sortedCards[1])

groupName(n) == IF n = 3 THEN "group-3" ELSE "group-4"

\* the patternType computed by validatePattern; "" when it returns false
patternTypeOf(cards) ==
  IF Len(cards) = 1 THEN "single"
  ELSE IF Len(cards) = 2 THEN
    IF sameRank(cards) THEN "pair"
    ELSE IF consecutiveSameSuit(cards) THEN "consecutive" ELSE ""
  ELSE IF Len(cards) >= 3 /\ Len(cards) <= 4 /\ sameRank(cards)
    THEN groupName(Len(cards))
  ELSE IF Len(cards) >= 2 /\ Len(cards) <= 13 THEN
    IF consecutiveSameSuit(cards) THEN "consecutive" ELSE ""
  ELSE ""

getPatternValue(cards, pattern) ==
  IF pattern = Null \/ Len(cards) = 0 THEN 0
  ELSE LET sortedCards == sortByValue(cards)
       IN IF pattern = "single" THEN getCardValue(sortedCards[1])
          ELSE IF pattern = "pair" \/ pattern \in {"group-3", "group-4"}
            THEN getCardValue(sortedCards[Len(sortedCards)])
          ELSE IF pattern = "consecutive" THEN getCardValue(sortedCards[1])
          ELSE 0

\* an optional play: <<>> is null, <<p>> is the play p
NoPlay == <<>>
SomePlay(p) == <<p>>

\* faulty variants of the three comparisons below: the family is not compared,
\* the run length is not compared, an equal value is let through
familyNeverMismatches(currentPattern, patternType) == FALSE
lengthNeverMismatches(prevCards, cards) == FALSE
notGreaterLetsEqualThrough(currentValue, prevValue) == currentValue < prevValue

\* currentPattern !== patternType
familyMismatch(currentPattern, patternType) == currentPattern # patternType

\* prevPattern.length !== cards.length
lengthMismatch(prevCards, cards) == Len(prevCards) # Len(cards)

\* currentValue <= prevValue, the rejection test of validatePattern
notGreater(currentValue, prevValue) == currentValue <= prevValue

validatePattern(cards, prevPattern, currentPattern) ==
  IF Len(cards) = 0 THEN FALSE
  ELSE IF hasDetails(cards) THEN
    IF Len(cards) # 1 THEN FALSE
    ELSE IF currentPattern # Null /\ currentPattern # "single" THEN FALSE
    ELSE TRUE
  ELSE IF prevPattern # NoPlay /\ hasDetails(prevPattern[1]) THEN FALSE
  ELSE IF \E i \in 1..Len(cards) :
            cards[i].isJoker /\ (cards[i].assignedRank = Null \/ cards[i].assignedSuit = Null)
    THEN FALSE
  ELSE LET patternType == patternTypeOf(cards)
       IN IF patternType = "" THEN FALSE
          ELSE IF currentPattern = Null \/ (prevPattern # NoPlay /\ Len(prevPattern[1]) = 0)
            THEN TRUE
          ELSE IF familyMismatch(currentPattern, patternType) THEN FALSE
          ELSE IF currentPattern = "consecutive" /\ prevPattern # NoPlay
                  /\ lengthMismatch(prevPattern[1], cards) THEN FALSE
          ELSE IF prevPattern # NoPlay THEN
            ~notGreater(getPatternValue(cards, currentPattern),
                        getPatternValue(prevPattern[1], currentPattern))
          ELSE TRUE

\* the value updatePattern leaves in game.currentPattern
updatePattern(cards, currentPattern) ==
  IF hasDetails(cards) THEN "single"
  ELSE IF Len(cards) = 1 THEN "single"
  ELSE IF Len(cards) = 2 THEN
    IF sameRank(cards) THEN "pair" ELSE "consecutive"
  ELSE IF Len(cards) >= 3 /\ Len(cards) <= 4 /\ sameRank(cards)
    THEN groupName(Len(cards))
  ELSE IF Len(cards) >= 2 THEN "consecutive"
  ELSE currentPattern

-----------------------------------------------------------------------------
(* The plays a bot finds in its hand                                       *)

\* [].concat(...lists)
RECURSIVE flat(_)
flat(lists) == IF lists = <<>> THEN <<>> ELSE lists[1] \o flat(Tail(lists))

\* list.filter(accepts): the accepted elements in the order of the list
keepAccepted(list, accepts(_)) ==
  LET kept == {k \in 1..Len(list) : accepts(list[k])}
      ranked == {<<k, Cardinality({j \in kept : j <= k})>> : k \in kept}
  IN [m \in 1..Cardinality(kept) |-> list[(CHOOSE at \in ranked : at[2] = m)[1]]]

\* x || fallback, for a rank or a suit
orElse(x, fallback) == IF x = Null THEN fallback ELSE x

\* { ...card, assignedRank: rank, assignedSuit: suit }
createJokerCard(card, rank, suit) ==
  [card EXCEPT !.assignedRank = rank, !.assignedSuit = suit]

\* the joker of a pair or of a group takes the rank and the suit of the first
\* card of the pair or group
bindToFirst(cards) ==
  [k \in 1..Len(cards) |->
     IF cards[k].isJoker
     THEN createJokerCard(cards[k], orElse(cards[1].rank, "3"), orElse(cards[1].suit, "hearts"))
     ELSE cards[k]]

getPatternType(cards) ==
  LET selfRanked == \A k \in 1..Len(cards) :
                      effRank(cards[k]) =
                        (IF cards[1].isJoker THEN cards[k].assignedRank ELSE cards[k].rank)
      sortedCards == sortByValue(cards)
      isConsecutive == \A k \in 2..Len(sortedCards) :
                         getCardValue(sortedCards[k]) = getCardValue(sortedCards[k - 1]) + 1
      sameSuit == \A k \in 2..Len(sortedCards) : sortedCards[k].suit = sortedCards[1].suit
  IN IF Len(cards) = 1 THEN "single"
     ELSE IF Len(cards) = 2 /\ selfRanked THEN "pair"
     ELSE IF Len(cards) >= 3 /\ Len(cards) <= 4 /\ selfRanked THEN groupName(Len(cards))
     ELSE IF isConsecutive /\ sameSuit THEN "consecutive"
     ELSE ""

isValidPair(cards, prevPattern, currentPattern) ==
  IF Len(cards) # 2 THEN FALSE
  ELSE effRank(cards[1]) = effRank(cards[2])
       /\ validatePattern(cards, prevPattern, currentPattern)

isValidGroup(cards, prevPattern, currentPattern) ==
  IF Len(cards) < 3 \/ Len(cards) > 4 THEN FALSE
  ELSE (\A k \in 1..Len(cards) : effRank(cards[k]) = effRank(cards[1]))
       /\ validatePattern(cards, prevPattern, currentPattern)

RECURSIVE getCombinations(_, _)
getCombinations(cards, size) ==
  IF size = 1 THEN [k \in 1..Len(cards) |-> <<cards[k]>>]
  ELSE flat([i \in 1..Len(cards) |->
               LET subCombinations == getCombinations(SubSeq(cards, i + 1, Len(cards)), size - 1)
               IN [k \in 1..Len(subCombinations) |-> <<cards[i]>> \o subCombinations[k]]])

\* the elements of a list without repetition, in the order of their first
\* occurrence: the iteration order of new Set(list)
RECURSIVE setOrder(_)
setOrder(list) ==
  IF list = <<>> THEN <<>>
  ELSE LET front == setOrder(SubSeq(list, 1, Len(list) - 1))
           x == list[Len(list)]
       IN IF x \in Range(front) THEN front ELSE Append(front, x)

\* ranks[index] of a JavaScript array: undefined outside 0..12; the remainder
\* of a negative number is negative or zero
rankAt(n) ==
  IF n >= 0 THEN Ranks[(n % Len(Ranks)) + 1]
  ELSE IF (-n) % Len(Ranks) = 0 THEN Ranks[1]
  ELSE Null

getConsecutiveSequences(hand, length) ==
  IF length < 2 THEN <<>>
  ELSE
    LET sortedCards == sortByValue(hand)
        suits == setOrder([k \in 1..Len(sortedCards) |-> sortedCards[k].suit])
        suitCardsOf(suit) ==
          Filter(sortedCards,
                 [k \in 1..Len(sortedCards) |->
                    sortedCards[k].suit = suit \/ sortedCards[k].isJoker])
        effectiveCards(seq, suit) ==
          [idx \in 1..Len(seq) |->
             IF seq[idx].isJoker
             THEN createJokerCard(seq[idx],
                                  rankAt(getCardValue(seq[1]) + (idx - 1) - 3), suit)
             ELSE seq[idx]]
        isValid(cards) ==
          \A j \in 2..Len(cards) :
            getCardValue(cards[j]) = getCardValue(cards[j - 1]) + 1
        sequencesOf(suit) ==
          LET suitCards == suitCardsOf(suit)
              \* suitCards.slice(i, i + length) for i = 0 .. suitCards.length - length
              slices == [k \in 1..(Len(suitCards) - length + 1) |->
                           effectiveCards(SubSeq(suitCards, k, k + length - 1), suit)]
          IN IF Len(suitCards) < length THEN <<>>
             ELSE keepAccepted(slices, isValid)
    IN flat([k \in 1..Len(suits) |-> sequencesOf(suits[k])])

\* what the comparator of the final sort reads of a play: whether it is a
\* single card, and its value in the family of the round or in its own
patternKey(cards, currentPattern) ==
  [isSingle |-> Len(cards) = 1,
   value |-> getPatternValue(cards, IF currentPattern # Null THEN currentPattern
                                    ELSE getPatternType(cards))]

\* the comparator of the final sort: plays of several cards before single
\* cards, then lower values first
comparePatterns(a, b) ==
  IF a.isSingle /\ ~b.isSingle THEN 1
  ELSE IF ~a.isSingle /\ b.isSingle THEN -1
  ELSE a.value - b.value

\* patterns.sort(comparator), a stable sort: a play comes after the plays the
\* comparator puts before it and after the equal plays that precede it in the
\* list
sortPatterns(patterns, currentPattern) ==
  LET n == Len(patterns)
      keyed == {[at |-> k, key |-> patternKey(patterns[k], currentPattern)] : k \in 1..n}
      before(a, b) ==
        comparePatterns(a.key, b.key) < 0
        \/ (comparePatterns(a.key, b.key) = 0 /\ a.at < b.at)
      placed == {<<b.at, 1 + Cardinality({a \in keyed : before(a, b)})>> : b \in keyed}
  IN [m \in 1..n |-> patterns[(CHOOSE at \in placed : at[2] = m)[1]]]

getValidBotPatterns(hand, prevPattern, currentPattern) ==
  LET valid(cards) == validatePattern(cards, prevPattern, currentPattern)
      validPair(cards) == isValidPair(cards, prevPattern, currentPattern)
      validGroup(cards) == isValidGroup(cards, prevPattern, currentPattern)
      \* a joker on its own under every suit and rank, suits outermost
      jokerSingles(card) ==
        keepAccepted([k \in 1..(Len(Suits) * Len(Ranks)) |->
                        <<createJokerCard(card, Ranks[((k - 1) % Len(Ranks)) + 1],
                                          Suits[((k - 1) \div Len(Ranks)) + 1])>>],
                     valid)
      detailsIndex == indexOf([k \in 1..Len(hand) |-> hand[k].isDetails], TRUE)
      singles ==
        IF currentPattern = Null \/ currentPattern = "single"
        THEN flat([k \in 1..Len(hand) |->
                     IF hand[k].isJoker THEN jokerSingles(hand[k])
                     ELSE IF valid(<<hand[k]>>) THEN <<<<hand[k]>>>> ELSE <<>>])
             \o (IF detailsIndex >= 0 /\ valid(<<hand[detailsIndex + 1]>>)
                 THEN <<<<hand[detailsIndex + 1]>>>> ELSE <<>>)
        ELSE <<>>
      pairs ==
        IF currentPattern = Null \/ currentPattern = "pair"
        THEN LET twos == flat([i \in 1..Len(hand) |->
                                 [j \in 1..(Len(hand) - i) |-> <<hand[i], hand[i + j]>>]])
             IN keepAccepted([k \in 1..Len(twos) |-> bindToFirst(twos[k])], validPair)
        ELSE <<>>
      groupsOf(size) ==
        IF currentPattern = Null \/ currentPattern = groupName(size)
        THEN LET combinations == getCombinations(hand, size)
             IN keepAccepted([k \in 1..Len(combinations) |-> bindToFirst(combinations[k])],
                             validGroup)
        ELSE <<>>
      groups ==
        IF currentPattern = Null \/ currentPattern \in {"group-3", "group-4"}
        THEN groupsOf(3) \o groupsOf(4)
        ELSE <<>>
      requiredLength == IF currentPattern = "consecutive" /\ prevPattern # NoPlay
                        THEN Len(prevPattern[1]) ELSE 0
      minLength == IF requiredLength # 0 THEN requiredLength ELSE 2
      maxLength == IF requiredLength # 0 THEN requiredLength ELSE Len(hand)
      runs ==
        IF currentPattern = Null \/ currentPattern = "consecutive"
        THEN flat([k \in 1..Max(0, maxLength - minLength + 1) |->
                     keepAccepted(getConsecutiveSequences(hand, minLength + k - 1), valid)])
        ELSE <<>>
  IN sortPatterns(singles \o pairs \o groups \o runs, currentPattern)

-----------------------------------------------------------------------------
(* Shuffle and deal                                                        *)

Seeds == 0..(NumSeeds - 1)

\* Math.random() is modelled in steps of 1 / RandomGrain
RandomGrain == 64

\* the t-th digit of seed in base RandomGrain
RECURSIVE randomDigit(_, _)
randomDigit(seed, t) ==
  IF seed = 0 THEN 0
  ELSE IF t = 0 THEN seed % RandomGrain
  ELSE randomDigit(seed \div RandomGrain, t - 1)

\* RandomGrain times the value of the t-th call of Math.random in the random
\* stream numbered seed, a number in 0..(RandomGrain - 1).  Stream 0 is a
\* fixed sequence; the t-th digit of seed moves the t-th value, so that every
\* finite sequence of such values is the start of some stream.
random(seed, t) == (3 * (t + 1) + 27 * randomDigit(seed, t)) % RandomGrain

\* Math.floor(Math.random() * m) at the t-th call of Math.random, for the
\* random stream numbered seed
RandomInt(seed, t, m) == (random(seed, t) * m) \div RandomGrain

swap(s, i, j) == [s EXCEPT ![i] = s[j], ![j] = s[i]]

\* for (let i = s.length - 1; i > 0; i--) { j = random(i + 1); swap s[i], s[j] }
\* i is the 0-based loop index, t the number of Math.random calls made so far
\* draws[i] is the j drawn at loop index i
RECURSIVE fisherYatesBy(_, _, _)
fisherYatesBy(s, i, draws) ==
  IF i < 1 THEN s
  ELSE fisherYatesBy(swap(s, i + 1, draws[i] + 1), i - 1, draws)

\* the draws of a loop that starts at index i after t calls of Math.random
streamDraws(seed, t, i) == [k \in 1..i |-> RandomInt(seed, t + (i - k), k + 1)]

fisherYates(s, i, seed, t) == fisherYatesBy(s, i, streamDraws(seed, t, i))

shuffle(deck, seed) == fisherYates(deck, Len(deck) - 1, seed, 0)

\* a faulty variant of the test below: the remainder is never dealt
getsExtraNever(position, extraCards) == FALSE

\* the second loop of deal reaches the player at this position of
\* shuffledPlayerIndices: i < extraCards
getsExtra(position, extraCards) == position < extraCards

\* the deal of game.deck to game.players; draws are the draws of the loop that
\* shuffles the player indices
dealBy(game, draws) ==
  LET n == Len(game.players)
      baseCardsPerPlayer == Len(game.deck) \div n
      extraCards == Len(game.deck) % n
      shuffledPlayerIndices == fisherYatesBy([i \in 1..n |-> i - 1], n - 1, draws)
      \* position of the 0-based player index q in shuffledPlayerIndices
      pos(q) == indexOf(shuffledPlayerIndices, q)
      handOf(q) ==
        SubSeq(game.deck, pos(q) * baseCardsPerPlayer + 1, (pos(q) + 1) * baseCardsPerPlayer)
        \o (IF getsExtra(pos(q), extraCards)
            THEN <<game.deck[n * baseCardsPerPlayer + pos(q) + 1]>> ELSE <<>>)
  IN [game EXCEPT
        !.players = [i \in 1..n |-> [game.players[i] EXCEPT !.hand = handOf(i - 1)]],
        !.deck = <<>>]

\* deal with the draws of the random stream; t0 is the number of Math.random
\* calls made before deal
deal(game, seed, t0) == dealBy(game, streamDraws(seed, t0, Len(game.players) - 1))

-----------------------------------------------------------------------------
(* Game aggregate                                                          *)

Player(id, name, isBot) ==
  [id |-> id, name |-> name, hand |-> <<>>, title |-> Null, isBot |-> isBot]

\* `${gameId}-${playerName}`; one game id is modelled, so the name stands for it
playerIdOf(gameId, playerName) == playerName

\* a caller id that is never seated
Stranger == "zz"

hasGame(gs, gameId) == gameId \in DOMAIN gs

seatOf(game, playerId) ==
  indexOf([i \in 1..Len(game.players) |-> game.players[i].id], playerId)

\* game.players.some(p => p.id === playerId)
seated(game, playerId) == seatOf(game, playerId) >= 0

currentInRange(game) == game.currentTurn >= 0 /\ game.currentTurn < Len(game.players)

\* game.players[game.currentTurn]
currentPlayer(game) == game.players[game.currentTurn + 1]

handLen(game, i) == Len(game.players[i + 1].hand)

RECURSIVE nextValidFrom(_, _, _, _)
nextValidFrom(game, index, attempts, startIndex) ==
  IF attempts >= Len(game.players) THEN startIndex
  ELSE IF handLen(game, index) > 0 THEN index
  ELSE nextValidFrom(game, (index + 1) % Len(game.players), attempts + 1, startIndex)

getNextValidPlayerIndex(game, startIndex) ==
  nextValidFrom(game, startIndex % Len(game.players), 0, startIndex)

\* a faulty variant: every finisher is crowned
titleForAlwaysKing(titleIndex) == "King"

\* the title given to the k-th newly finished player when titleIndex seats
\* already hold a title other than Beggar
titleFor(titleIndex) ==
  IF titleIndex = 0 THEN "King" ELSE IF titleIndex = 1 THEN "Wise" ELSE "Civilian"

assignTitles(game) ==
  LET n == Len(game.players)
      finished(i) == Len(game.players[i].hand) = 0 /\ game.players[i].title = Null
      titleIndex == Cardinality({i \in 1..n : game.players[i].title # Null
                                              /\ game.players[i].title # "Beggar"})
      \* game.players.findIndex(p => p.id === a.id): the first seat of that id
      firstIndex(i) == seatOf(game, game.players[i].id)
      \* number of newly finished players sorted before seat i: the sort is
      \* by firstIndex and keeps the seat order of equal keys
      before(i) == Cardinality({j \in 1..n :
                                  /\ finished(j)
                                  /\ \/ firstIndex(j) < firstIndex(i)
                                     \/ firstIndex(j) = firstIndex(i) /\ j < i})
      remainingPlayers == {i \in 1..n : Len(game.players[i].hand) > 0}
      ranked == [i \in 1..n |->
                   IF finished(i)
                   THEN [game.players[i] EXCEPT !.title = titleFor(titleIndex + before(i))]
                   ELSE game.players[i]]
      withBeggar == [i \in 1..n |->
                   IF Cardinality(remainingPlayers) = 1 /\ n > 2 /\ i \in remainingPlayers
                   THEN [ranked[i] EXCEPT !.title = "Beggar"]
                   ELSE ranked[i]]
  IN [game EXCEPT
        !.players = withBeggar,
        !.status = IF \A i \in 1..n : withBeggar[i].title # Null
                   THEN "finished" ELSE game.status]

-----------------------------------------------------------------------------
(* The service state: this.games, this.turnTimers, this.botTimers          *)

EmptyMap == <<>>
put(f, k, v) == [x \in (DOMAIN f) \cup {k} |-> IF x = k THEN v ELSE f[x]]
drop(f, k) == [x \in (DOMAIN f) \ {k} |-> f[x]]

\* a pending turn timer: the player it was armed for and the game object its
\* callback closed over.  fate is "live" while that object is the registered
\* game; once the object is removed from the registry it no longer changes,
\* and fate is the outcome of the callback's test on it
Timer(playerId, fate) == [playerId |-> playerId, fate |-> fate]

\* outcome of `game.players[game.currentTurn].id !== playerId` (line 901)
timerTest(game, playerId) ==
  IF ~currentInRange(game) THEN "throw"
  ELSE IF currentPlayer(game).id # playerId THEN "skip"
  ELSE "pass"

clearTurnTimer(st, gameId) == [st EXCEPT !.turnTimers = drop(st.turnTimers, gameId)]

clearBotTimer(st, gameId) == [st EXCEPT !.botTimers = drop(st.botTimers, gameId)]

armTurnTimer(st, gameId) ==
  [st EXCEPT !.turnTimers =
     put(st.turnTimers, gameId, Timer(currentPlayer(st.games[gameId]).id, "live"))]

startTurnTimer(st, gameId) ==
  LET s1 == clearTurnTimer(st, gameId)
  IN IF ~hasGame(s1.games, gameId) THEN s1
     ELSE IF s1.games[gameId].isTestMode \/ s1.games[gameId].status # "playing" THEN s1
     ELSE armTurnTimer(s1, gameId)

scheduleBotPlay(st, gameId) ==
  LET s1 == clearBotTimer(st, gameId)
  IN IF ~hasGame(s1.games, gameId) THEN s1
     ELSE IF s1.games[gameId].status # "playing" \/ ~s1.games[gameId].isSinglePlayer THEN s1
     ELSE IF ~currentPlayer(s1.games[gameId]).isBot THEN s1
     ELSE [s1 EXCEPT !.botTimers =
             put(s1.botTimers, gameId, [playerId |-> currentPlayer(s1.games[gameId]).id])]

\* startTurnTimer(gameId); if (isSinglePlayer && current.isBot) scheduleBotPlay(gameId)
rearm(st, gameId) ==
  LET s1 == startTurnTimer(st, gameId)
      game == s1.games[gameId]
  IN IF game.isSinglePlayer /\ currentPlayer(game).isBot
     THEN scheduleBotPlay(s1, gameId) ELSE s1

\* delete this.games[gameId]: a pending timer keeps the removed object
unregister(st, gameId, finalGame) ==
  [st EXCEPT
     !.games = drop(st.games, gameId),
     !.turnTimers =
        IF gameId \in DOMAIN st.turnTimers /\ st.turnTimers[gameId].fate = "live"
        THEN put(st.turnTimers, gameId,
                 Timer(st.turnTimers[gameId].playerId,
                       timerTest(finalGame, st.turnTimers[gameId].playerId)))
        ELSE st.turnTimers]

setGame(st, gameId, game) == [st EXCEPT !.games = put(st.games, gameId, game)]

Outcome(st, result) == [st |-> st, result |-> result]

-----------------------------------------------------------------------------
(* Methods of GameService; each yields the new service state and a result: *)
(* "ok" (a Game is returned), "null", or "throw" (a TypeError escapes)     *)

startGame(st, gameId, seed) ==
  IF ~hasGame(st.games, gameId) THEN Outcome(st, "null")
  ELSE LET game == st.games[gameId]
       IN IF game.status # "waiting" /\ ~game.isTestMode THEN Outcome(st, "null")
          ELSE IF ~game.isTestMode /\ ~game.isSinglePlayer
                  /\ (Len(game.players) < MIN_PLAYERS \/ Len(game.players) > MAX_PLAYERS)
            THEN Outcome(st, "null")
          ELSE LET shuffled == [game EXCEPT !.status = "playing",
                                            !.deck = shuffle(game.deck, seed)]
                   dealt == deal(shuffled, seed, Len(game.deck) - 1)
                   turned == [dealt EXCEPT !.currentTurn = getNextValidPlayerIndex(dealt, 0)]
                   s1 == setGame(st, gameId, turned)
               IN Outcome(IF ~turned.isTestMode THEN rearm(s1, gameId) ELSE s1, "ok")

createGame(st, gameId, playerName, isTestMode, seed) ==
  LET game == [id |-> gameId,
               players |-> <<Player(playerIdOf(gameId, playerName), playerName, FALSE)>>,
               deck |-> createDeck,
               pile |-> <<>>,
               currentTurn |-> 0,
               status |-> IF isTestMode THEN "playing" ELSE "waiting",
               passCount |-> 0,
               currentPattern |-> Null,
               lastPlayedPlayerId |-> Null,
               isTestMode |-> isTestMode,
               passedPlayerIds |-> <<>>,
               isSinglePlayer |-> FALSE]
      s1 == setGame(st, gameId, game)
  IN Outcome(IF isTestMode THEN startGame(s1, gameId, seed).st ELSE s1, "ok")

\* a faulty variant: no name is ever taken
nameTakenNever(game, playerName) == FALSE

\* game.players.some(p => p.name === playerName)
nameTaken(game, playerName) ==
  \E i \in 1..Len(game.players) : game.players[i].name = playerName

joinGame(st, gameId, playerName) ==
  IF ~hasGame(st.games, gameId) THEN Outcome(st, "null")
  ELSE LET game == st.games[gameId]
       IN IF game.status # "waiting" THEN Outcome(st, "null")
          ELSE IF Len(game.players) >= MAX_PLAYERS THEN Outcome(st, "null")
          ELSE IF nameTaken(game, playerName) THEN Outcome(st, "null")
          ELSE Outcome(setGame(st, gameId,
                 [game EXCEPT !.players =
                    Append(@, Player(playerIdOf(gameId, playerName), playerName, FALSE))]),
                 "ok")

\* a faulty variant: anyone starts the game
startGameManuallyByAnyone(st, gameId, playerId, seed) == startGame(st, gameId, seed)

startGameManually(st, gameId, playerId, seed) ==
  IF ~hasGame(st.games, gameId) THEN Outcome(st, "null")
  ELSE LET game == st.games[gameId]
       IN IF game.status # "waiting" THEN Outcome(st, "null")
          ELSE IF Len(game.players) < MIN_PLAYERS \/ Len(game.players) > MAX_PLAYERS
            THEN Outcome(st, "null")
          ELSE IF ~seated(game, playerId) THEN Outcome(st, "null")
          ELSE startGame(st, gameId, seed)

\* a faulty variant: the first seat restarts the game
wiseSeatIsFirst(game) == 0

\* game.players.findIndex(p => p.title === 'Wise')
wiseSeat(game) == indexOf([i \in 1..Len(game.players) |-> game.players[i].title], "Wise")

restartGame(st, gameId, playerId, seed) ==
  IF ~hasGame(st.games, gameId) THEN Outcome(st, "null")
  ELSE LET game == st.games[gameId]
           wisePlayerIndex == wiseSeat(game)
       IN IF game.status # "finished" THEN Outcome(st, "null")
          ELSE IF ~seated(game, playerId) THEN Outcome(st, "null")
          ELSE IF wisePlayerIndex = -1 THEN Outcome(st, "null")
          ELSE LET s1 == clearBotTimer(clearTurnTimer(st, gameId), gameId)
                   reset == [game EXCEPT !.status = "playing",
                                         !.pile = <<>>,
                                         !.passCount = 0,
                                         !.passedPlayerIds = <<>>,
                                         !.currentPattern = Null,
                                         !.lastPlayedPlayerId = Null,
                                         !.deck = shuffle(createDeck, seed)]
                   dealt == deal(reset, seed, Len(createDeck) - 1)
                   turned == [dealt EXCEPT
                                !.currentTurn = wisePlayerIndex,
                                !.players = [i \in 1..Len(dealt.players) |->
                                               [dealt.players[i] EXCEPT !.title = Null]]]
                   s2 == setGame(s1, gameId, turned)
               IN Outcome(IF ~turned.isTestMode THEN rearm(s2, gameId) ELSE s2, "ok")

\* a faulty variant: the last seat is removed
spliceLast(players, playerIndex) == SubSeq(players, 1, Len(players) - 1)

\* game.players.splice(playerIndex, 1)
splice(players, playerIndex) ==
  SubSeq(players, 1, playerIndex) \o SubSeq(players, playerIndex + 2, Len(players))

leaveGame(st, gameId, playerId) ==
  IF ~hasGame(st.games, gameId) THEN Outcome(st, "null")
  ELSE LET game == st.games[gameId]
           playerIndex == seatOf(game, playerId)
       IN IF playerIndex = -1 THEN Outcome(st, "null")
          ELSE IF game.status # "finished"
            THEN Outcome(unregister(st, gameId, [game EXCEPT !.status = "finished"]), "ok")
          ELSE LET left == [game EXCEPT !.players = splice(@, playerIndex)]
               IN IF Len(left.players) = 0
                  THEN Outcome(unregister(st, gameId, left), "ok")
                  ELSE Outcome(setGame(st, gameId, left), "ok")

leaveGameFromSummary(st, gameId, playerId) ==
  IF ~hasGame(st.games, gameId) THEN Outcome(st, "null")
  ELSE LET game == st.games[gameId]
           playerIndex == seatOf(game, playerId)
       IN IF playerIndex = -1 THEN Outcome(st, "null")
          ELSE LET left == [game EXCEPT !.players = splice(@, playerIndex)]
               IN IF Len(left.players) = 0
                  THEN Outcome(unregister(st, gameId, left), "ok")
                  ELSE Outcome(setGame(st, gameId, left), "ok")

\* a faulty variant: the hand is replaced before it is compared
updateHandOrderEager(st, gameId, playerId, hand) ==
  IF ~hasGame(st.games, gameId) THEN Outcome(st, "null")
  ELSE LET game == st.games[gameId]
           seat == seatOf(game, playerId)
       IN IF seat = -1 THEN Outcome(st, "null")
          ELSE LET placed == setGame(st, gameId, [game EXCEPT !.players[seat + 1].hand = hand])
               IN IF ~sameSortedIds(game.players[seat + 1].hand, hand)
                  THEN Outcome(placed, "null")
                  ELSE Outcome(placed, "ok")

\* updateHandOrder: the submitted hand replaces the player's hand if it holds
\* the same card identities
updateHandOrder(st, gameId, playerId, hand) ==
  IF ~hasGame(st.games, gameId) THEN Outcome(st, "null")
  ELSE LET game == st.games[gameId]
           seat == seatOf(game, playerId)
       IN IF seat = -1 THEN Outcome(st, "null")
          ELSE IF ~sameSortedIds(game.players[seat + 1].hand, hand) THEN Outcome(st, "null")
          ELSE Outcome(setGame(st, gameId, [game EXCEPT !.players[seat + 1].hand = hand]),
                       "ok")

\* handCardIds.includes(id) for every played id (line 763)
cardsInHand(cards, playerHand) ==
  \A i \in 1..Len(cards) : cardId(cards[i]) \in Range(cardIds(playerHand))

\* player.hand.filter(c => !playedCardIds.includes(cardId(c))) (line 768)
remainingHand(playerHand, cards) ==
  Filter(playerHand,
         [i \in 1..Len(playerHand) |-> cardId(playerHand[i]) \notin Range(cardIds(cards))])

\* the previous play handed to validatePattern (line 780)
topOfPile(game) ==
  IF Len(game.pile) > 0 THEN SomePlay(game.pile[Len(game.pile)]) ELSE NoPlay

\* the previous play and family handed to validatePattern in test mode (line 742)
testModePrev(game) == NoPlay
testModeFamily(game) == Null

\* lines 743-748 and 781-786: the accepted play is applied to the game
applyPlay(game, seat, playerId, cards, hand) ==
  [game EXCEPT !.players[seat + 1].hand = hand,
               !.pile = Append(@, cards),
               !.passCount = 0,
               !.passedPlayerIds = <<>>,
               !.lastPlayedPlayerId = playerId,
               !.currentPattern = updatePattern(cards, @)]

\* if (player.hand.length === 0) assignTitles(game)
titlesAfterPlay(game, seat) ==
  IF Len(game.players[seat + 1].hand) = 0 THEN assignTitles(game) ELSE game

\* game.currentTurn = getNextValidPlayerIndex(game, (currentTurn + 1) % n)
advanceTurn(game) ==
  [game EXCEPT !.currentTurn =
     getNextValidPlayerIndex(game, (game.currentTurn + 1) % Len(game.players))]

playPattern(st, gameId, playerId, cards, hand) ==
  IF ~hasGame(st.games, gameId) THEN Outcome(st, "null")
  ELSE LET game == st.games[gameId]
           seat == seatOf(game, playerId)
       IN IF ~game.isTestMode /\ ~currentInRange(game) THEN Outcome(st, "throw")
          ELSE IF ~game.isTestMode /\ currentPlayer(game).id # playerId THEN Outcome(st, "null")
          ELSE IF game.isTestMode THEN
            IF validatePattern(cards, testModePrev(game), testModeFamily(game)) THEN
              IF seat = -1 THEN Outcome(st, "throw")
              ELSE Outcome(setGame(st, gameId,
                     titlesAfterPlay(applyPlay(game, seat, playerId, cards, hand), seat)), "ok")
            ELSE Outcome(st, "null")
          ELSE IF ~cardsInHand(cards, game.players[seat + 1].hand) THEN Outcome(st, "null")
          ELSE IF ~sameSortedIds(hand, remainingHand(game.players[seat + 1].hand, cards))
            THEN Outcome(st, "null")
          ELSE IF validatePattern(cards, topOfPile(game), game.currentPattern) THEN
            LET played == titlesAfterPlay(applyPlay(game, seat, playerId, cards, hand), seat)
            IN IF played.status # "finished"
               THEN Outcome(rearm(setGame(clearBotTimer(clearTurnTimer(st, gameId), gameId),
                                          gameId, advanceTurn(played)), gameId), "ok")
               ELSE Outcome(setGame(st, gameId, played), "ok")
          ELSE Outcome(st, "null")

\* a faulty variant of the definition below: every pass is counted
recordPassAgain(game, playerId) ==
  [game EXCEPT !.passedPlayerIds =
                 IF playerId \notin Range(@) THEN Append(@, playerId) ELSE @,
               !.passCount = @ + 1]

\* lines 842-845: the pass is recorded once per player
recordPass(game, playerId) ==
  IF playerId \notin Range(game.passedPlayerIds)
  THEN [game EXCEPT !.passedPlayerIds = Append(@, playerId), !.passCount = @ + 1]
  ELSE game

\* the seats holding cards
activeSeats(game) == {i \in 1..Len(game.players) : Len(game.players[i].hand) > 0}

\* lines 854-856: active players that are neither the last to play nor passed
remainingActivePlayers(game) ==
  {i \in activeSeats(game) : /\ game.players[i].id # game.lastPlayedPlayerId
                             /\ game.players[i].id \notin Range(game.passedPlayerIds)}

\* line 858: the test that closes the round
roundCloses(game) ==
  Cardinality(remainingActivePlayers(game)) = 0 /\ Cardinality(activeSeats(game)) > 1

\* lines 859-871: the round is closed
closeRound(game) ==
  LET lastSeat == IF game.lastPlayedPlayerId # Null
                  THEN seatOf(game, game.lastPlayedPlayerId) ELSE -1
      first == IF game.lastPlayedPlayerId # Null THEN lastSeat ELSE game.currentTurn
      nextPlayerIndex ==
        IF first < 0 \/ (lastSeat >= 0 /\ Len(game.players[lastSeat + 1].hand) = 0)
        THEN (game.currentTurn + 1) % Len(game.players)
        ELSE first
      cleared == [game EXCEPT !.pile = <<>>,
                              !.passCount = 0,
                              !.passedPlayerIds = <<>>,
                              !.currentPattern = Null]
  IN [cleared EXCEPT !.currentTurn = getNextValidPlayerIndex(cleared, nextPlayerIndex)]

pass(st, gameId, playerId) ==
  IF ~hasGame(st.games, gameId) THEN Outcome(st, "null")
  ELSE LET game == st.games[gameId]
           seat == seatOf(game, playerId)
       IN IF ~game.isTestMode /\ ~currentInRange(game) THEN Outcome(st, "throw")
          ELSE IF ~game.isTestMode /\ currentPlayer(game).id # playerId THEN Outcome(st, "null")
          ELSE IF game.isTestMode THEN Outcome(st, "ok")
          ELSE IF seat = -1 THEN Outcome(st, "null")
          ELSE IF Len(game.pile) = 0 /\ game.passCount = 0
                  /\ Len(game.players[seat + 1].hand) > 0 THEN Outcome(st, "null")
          ELSE LET passed == recordPass(game, playerId)
                   moved == IF roundCloses(passed) THEN closeRound(passed)
                            ELSE advanceTurn(passed)
               IN Outcome(rearm(setGame(clearBotTimer(clearTurnTimer(st, gameId), gameId),
                                        gameId, moved), gameId), "ok")

\* the callback armed by startTurnTimer (lines 899-908); the fired timer is no
\* longer pending
turnTimeout(st, gameId) ==
  LET timer == st.turnTimers[gameId]
      s0 == clearTurnTimer(st, gameId)
      test == IF timer.fate = "live" THEN timerTest(st.games[gameId], timer.playerId)
              ELSE timer.fate
  IN IF test = "throw" THEN Outcome(s0, "throw")
     ELSE IF test = "skip" THEN Outcome(s0, "null")
     ELSE pass(clearBotTimer(s0, gameId), gameId, timer.playerId)

-----------------------------------------------------------------------------
(* Single-player mode: the seats of the bots and the turn a bot takes      *)

\* `${gameId}-bot${index + 1}`; one game id is modelled
botIdOf(gameId, index) == "bot" \o ToString(index + 1)

joinSinglePlayer(st, gameId, playerName, botNames) ==
  IF hasGame(st.games, gameId) THEN Outcome(st, "null")
  ELSE LET created == createGame(st, gameId, playerName, FALSE, 0).st
           game == created.games[gameId]
           bots == [k \in 1..Len(botNames) |-> Player(botIdOf(gameId, k - 1), botNames[k], TRUE)]
       IN Outcome(setGame(created, gameId,
                          [game EXCEPT !.isSinglePlayer = TRUE, !.players = @ \o bots]),
                  "ok")

\* the value of a candidate as chooseSmartPattern and the final sort read it
valueInRound(pattern, currentPattern) ==
  getPatternValue(pattern, IF currentPattern # Null THEN currentPattern
                           ELSE getPatternType(pattern))

\* twice the strategic score of a candidate of the given length and value (the
\* aggression factor is 1.5 or 1)
strategicScore(length, patternValue, handSize, activePlayers, isRoundStarter) ==
  LET highCardThreshold == 12
      base == patternValue * (IF handSize <= 3 \/ activePlayers = 1 THEN 3 ELSE 2)
      small == IF handSize <= 3 THEN -20 ELSE 0
      long == IF length > 2 THEN length * 4 ELSE 0
      round ==
        IF isRoundStarter
        THEN IF length = 1
             THEN 100 + (IF patternValue >= highCardThreshold THEN 40 ELSE 0)
             ELSE -20 + (IF patternValue < highCardThreshold THEN -10 ELSE 0)
        ELSE IF length = 1 /\ patternValue >= highCardThreshold THEN 20 ELSE 0
  IN base + small + long + round

\* passChance && !isRoundStarter; draw is the outcome of Math.random() < 0.2
mayPassStrategically(isRoundStarter, draw, prevValue, handSize) ==
  ~isRoundStarter /\ draw /\ prevValue < 12 /\ handSize > 5

\* the candidate the bot plays, <<>> when it passes
chooseSmartPattern(patterns, game, bot, draw) ==
  LET prevPattern == topOfPile(game)
      prevValue == IF prevPattern # NoPlay
                   THEN getPatternValue(prevPattern[1], game.currentPattern) ELSE 0
      activePlayers == Cardinality({i \in 1..Len(game.players) :
                                      /\ Len(game.players[i].hand) > 0
                                      /\ game.players[i].id # bot.id})
      handSize == Len(bot.hand)
      isRoundStarter == Len(game.pile) = 0 /\ game.passCount = 0
      scored == {[at |-> k,
                  value |-> valueInRound(patterns[k], game.currentPattern),
                  length |-> Len(patterns[k])] : k \in 1..Len(patterns)}
      viable == {c \in scored : isRoundStarter \/ c.value > prevValue}
      ranked == {[at |-> c.at,
                  score |-> strategicScore(c.length, c.value, handSize, activePlayers,
                                           isRoundStarter)] : c \in viable}
      best == CHOOSE c \in ranked :
                \A d \in ranked : c.score < d.score \/ (c.score = d.score /\ c.at <= d.at)
  IN IF Len(patterns) = 0 THEN <<>>
     ELSE IF mayPassStrategically(isRoundStarter, draw, prevValue, handSize) THEN <<>>
     ELSE IF ranked = {} THEN <<>>
     ELSE patterns[best.at]

\* game.players.find(p => p.id === botId): the first seat of that id
botOf(game, botId) == game.players[seatOf(game, botId) + 1]

\* the bot of a turn that passed the first guard: the first seat that has the
\* id of the seat at the turn
botAtTurn(game) == botOf(game, currentPlayer(game).id)

\* the guards of playBotTurn (lines 238 and 243): "throw" when currentTurn
\* addresses no seat, "run" when the bot goes on to play or pass
botGuard(st, gameId, botId) ==
  IF ~hasGame(st.games, gameId) THEN "skip"
  ELSE LET game == st.games[gameId]
       IN IF game.status # "playing" \/ ~game.isSinglePlayer THEN "skip"
          ELSE IF ~currentInRange(game) THEN "throw"
          ELSE IF currentPlayer(game).id # botId THEN "skip"
          ELSE IF ~botOf(game, botId).isBot \/ Len(botOf(game, botId).hand) = 0 THEN "skip"
          ELSE "run"

\* validPatterns of playBotTurn for the bot found for the turn
botCandidates(game) ==
  getValidBotPatterns(botAtTurn(game).hand, topOfPile(game), game.currentPattern)

\* selectedPattern of playBotTurn: <<>> when the bot finds no candidate and
\* when it chooses to pass
botSelection(game, draw) ==
  chooseSmartPattern(botCandidates(game), game, botAtTurn(game), draw)

\* if (!result) this.pass(gameId, botId)
orForcedPass(st, gameId, botId, result) ==
  IF result.result = "null" THEN pass(st, gameId, botId) ELSE result

\* bot.hand.filter(c => !playedCardIds.includes(this.cardId(c)))
updatedHand(botHand, selectedPattern) ==
  Filter(botHand,
         [i \in 1..Len(botHand) |->
            cardId(botHand[i]) \notin Range(cardIds(selectedPattern))])

\* this.playPattern(gameId, botId, selectedPattern, updatedHand)
botOffer(st, gameId, botId, selectedPattern) ==
  playPattern(st, gameId, botId, selectedPattern,
              updatedHand(botOf(st.games[gameId], botId).hand, selectedPattern))

\* the bot passes when it selected nothing, otherwise it plays its selection
\* out of its hand
botMove(st, gameId, botId, selectedPattern) ==
  IF selectedPattern = <<>> THEN pass(st, gameId, botId)
  ELSE orForcedPass(st, gameId, botId, botOffer(st, gameId, botId, selectedPattern))

\* the callback armed by scheduleBotPlay
playBotTurn(st, gameId, botId, draw) ==
  IF botGuard(st, gameId, botId) = "throw" THEN Outcome(st, "throw")
  ELSE IF botGuard(st, gameId, botId) = "skip" THEN Outcome(st, "null")
  ELSE botMove(st, gameId, botId, botSelection(st.games[gameId], draw))

-----------------------------------------------------------------------------
(* Inputs of the commands                                                  *)


\* the indices of I in increasing order
RECURSIVE seqOfSet(_)
seqOfSet(I) ==
  IF I = {} THEN <<>>
  ELSE LET m == CHOOSE x \in I : \A y \in I : x <= y
       IN <<m>> \o seqOfSet(I \ {m})

Unbound == [rank |-> Null, suit |-> Null]

\* a client assigns a joker one of the deck's ranks or the rank after them
JokerBindings ==
  {[rank |-> Ranks[r], suit |-> DeckSuits[1]] : r \in 1..(ranksInDeck + 1)}

bind(card, b1, b2) ==
  IF ~card.isJoker THEN card
  ELSE IF card.suit = "joker1"
    THEN [card EXCEPT !.assignedRank = b1.rank, !.assignedSuit = b1.suit]
  ELSE [card EXCEPT !.assignedRank = b2.rank, !.assignedSuit = b2.suit]

bindAll(cards, b1, b2) == [i \in 1..Len(cards) |-> bind(cards[i], b1, b2)]

hasJoker(cards, suit) == \E i \in 1..Len(cards) : cards[i].isJoker /\ cards[i].suit = suit

\* the selections of 1..MaxPlayLen cards among the first MaxPick cards of a hand
selections(playerHand) ==
  {[i \in 1..Len(seqOfSet(I)) |-> playerHand[seqOfSet(I)[i]]] :
     I \in {J \in SUBSET (1..Min(Len(playerHand), MaxPick)) :
              Cardinality(J) >= 1 /\ Cardinality(J) <= MaxPlayLen}}

\* a selection with its jokers assigned, or all left unassigned
boundPlays(playerHand) ==
  UNION {
    {bindAll(sel, b1, b2) :
       b1 \in (IF hasJoker(sel, "joker1") THEN JokerBindings ELSE {Unbound}),
       b2 \in (IF hasJoker(sel, "joker2") THEN JokerBindings ELSE {Unbound})}
    \cup {sel} : sel \in selections(playerHand)}

PlayInput(cards, hand) == [cards |-> cards, hand |-> hand]

\* plays whose cards are the caller's and whose hand is what remains
honestPlays(playerHand) ==
  {PlayInput(cards, remainingHand(playerHand, cards)) : cards \in boundPlays(playerHand)}

\* plays that break the shape rules: no card, a card listed twice, a card that
\* is not the caller's, a resulting hand that keeps or drops too much
dishonestPlays(playerHand) ==
  {PlayInput(<<>>, playerHand)}
  \cup {PlayInput(<<playerHand[i], playerHand[i]>>,
                  remainingHand(playerHand, <<playerHand[i]>>)) :
          i \in 1..Min(Len(playerHand), MaxPick)}
  \cup {PlayInput(<<createDeck[i]>>, playerHand) :
          i \in {j \in 1..Len(createDeck) :
                   /\ cardId(createDeck[j]) \notin Range(cardIds(playerHand))
                   /\ \A k \in 1..(j - 1) :
                        cardId(createDeck[k]) \in Range(cardIds(playerHand))}}
  \cup (IF Len(playerHand) >= 1
        THEN {PlayInput(<<playerHand[1]>>, playerHand)} ELSE {})
  \cup (IF Len(playerHand) >= 2
        THEN {PlayInput(<<playerHand[1]>>, Tail(Tail(playerHand)))} ELSE {})

\* the ids of the first k seats of a game
firstSeats(gameId, k) ==
  IF hasGame(games, gameId)
  THEN {games[gameId].players[i].id : i \in 1..Min(k, Len(games[gameId].players))}
  ELSE {}

\* the callers of start, restart and the two leave commands: the first seat or
\* seats, and a caller that is not seated
Callers(gameId, k) == firstSeats(gameId, k) \cup {Stranger}

\* the callers of play and pass: the player whose turn it is, the seat after
\* it (out of turn), and a caller that is not seated where no seat has the turn
\* or the game is in test mode
TurnCallers(gameId) ==
  IF ~hasGame(games, gameId) THEN {Stranger}
  ELSE LET game == games[gameId]
           n == Len(game.players)
       IN IF game.isTestMode THEN firstSeats(gameId, 1) \cup {Stranger}
          ELSE IF ~currentInRange(game) THEN firstSeats(gameId, 1)
          ELSE {currentPlayer(game).id, game.players[((game.currentTurn + 1) % n) + 1].id}

\* the names a 'join' asks for: the first name of the pool that is not seated,
\* the name of the first seat, and no name at all
JoinNames(gameId) ==
  LET taken == IF hasGame(games, gameId)
               THEN {games[gameId].players[i].name : i \in 1..Len(games[gameId].players)}
               ELSE {}
      free == {i \in 1..NumNames : NamePool[i] \notin taken}
  IN {NamePool[i] : i \in {j \in free : \A k \in free : j <= k}}
     \cup (IF hasGame(games, gameId) /\ Len(games[gameId].players) > 0
          THEN {games[gameId].players[1].name} ELSE {})
     \cup {""}

\* the plays submitted by playerId: everything for the player whose turn it
\* is (any seat in test mode), one play for the others
PlayInputs(gameId, playerId) ==
  IF ~hasGame(games, gameId) THEN {PlayInput(<<createDeck[1]>>, <<>>)}
  ELSE LET game == games[gameId]
           seat == seatOf(game, playerId)
       IN IF seat = -1 THEN {PlayInput(<<createDeck[1]>>, <<>>)}
          ELSE LET playerHand == game.players[seat + 1].hand
               IN IF game.isTestMode
                     \/ (currentInRange(game) /\ currentPlayer(game).id = playerId)
                  THEN honestPlays(playerHand) \cup dishonestPlays(playerHand)
                  ELSE IF Len(playerHand) >= 1
                    THEN {PlayInput(<<playerHand[1]>>, Tail(playerHand))}
                  ELSE {PlayInput(<<>>, <<>>)}

\* the hand orders submitted by playerId: its hand reversed, its hand without
\* the first card, its hand with the last card in place of the first
reverse(s) == [i \in 1..Len(s) |-> s[Len(s) + 1 - i]]

OrderInputs(gameId, playerId) ==
  IF ~hasGame(games, gameId) \/ seatOf(games[gameId], playerId) = -1 THEN {<<>>}
  ELSE LET playerHand == games[gameId].players[seatOf(games[gameId], playerId) + 1].hand
       IN IF playerHand = <<>> THEN {<<>>, <<Details>>}
          ELSE {reverse(playerHand), Tail(playerHand),
                [playerHand EXCEPT ![1] = playerHand[Len(playerHand)]]}

-----------------------------------------------------------------------------
(* The service as a state machine: one action per socket event or timer     *)

service == [games |-> games, turnTimers |-> turnTimers, botTimers |-> botTimers]

\* the last command or timer expiry that changed the service, and its result
Command(op, result) == [op |-> op, result |-> result]

NoInput == [cards |-> <<>>, prev |-> NoPlay, family |-> Null]
NoOutput == [done |-> FALSE, valid |-> FALSE, family |-> Null]

\* the arguments and the result of one call of getValidBotPatterns
NoHand == [hand |-> <<>>, prev |-> NoPlay, family |-> Null]
NoPatterns == [done |-> FALSE, validPatterns |-> <<>>]

\* the arguments and the progress of one createDeck, shuffle, deal sequence
NoDeal == [n |-> 0, seed |-> 0, draws |-> <<>>]
NotDealt == [stage |-> "none", game |-> Null]

\* The handler ran to its end, or a TypeError escaped it: nothing catches it,
\* the process ends and its registry and timers are gone.  A handler that
\* leaves the service as it was is a stuttering step.
Handled(out, op) ==
  /\ ~crashed
  /\ IF out.result = "throw"
     THEN /\ games' = EmptyMap
          /\ turnTimers' = EmptyMap
          /\ botTimers' = EmptyMap
          /\ crashed' = TRUE
          /\ last' = Command(op, "throw")
     ELSE IF out.st = service
     THEN UNCHANGED <<games, turnTimers, botTimers, crashed, last>>
     ELSE /\ games' = out.st.games
          /\ turnTimers' = out.st.turnTimers
          /\ botTimers' = out.st.botTimers
          /\ crashed' = FALSE
          /\ last' = Command(op, out.result)
  /\ UNCHANGED <<ranksInDeck, suitsInDeck, vin, vout, din, dout, quiet, bin, bout>>

\* socket event 'join' (server.ts): without a game id or a player name the
\* listener answers 'error' and calls nothing; otherwise it creates the game
\* or joins it
Join(gameId, playerName, isTestMode, seed) ==
  /\ isTestMode \/ seed = 0
  /\ hasGame(games, gameId) => (~isTestMode /\ seed = 0)
  /\ Handled(IF gameId = "" \/ playerName = ""
             THEN Outcome(service, "null")
             ELSE IF ~hasGame(games, gameId)
             THEN createGame(service, gameId, playerName, isTestMode, seed)
             ELSE joinGame(service, gameId, playerName),
             "join")

\* socket event 'startGame'
StartGame(gameId, playerId, seed) ==
  /\ Handled(startGameManually(service, gameId, playerId, seed), "startGame")

\* socket event 'restartGame'
RestartGame(gameId, playerId, seed) ==
  /\ Handled(restartGame(service, gameId, playerId, seed), "restartGame")

\* socket event 'playPattern': the service's listener clears the timers, then
\* the server's listener calls playPattern
PlayPattern(gameId, playerId, cards, hand) ==
  /\ hasGame(games, gameId) => Len(games[gameId].pile) < MaxPile \/ ~games[gameId].isTestMode
  /\ Handled(playPattern(clearBotTimer(clearTurnTimer(service, gameId), gameId),
                         gameId, playerId, cards, hand),
             "playPattern")

\* socket event 'pass': the service's listener clears the timers, then the
\* server's listener calls pass
Pass(gameId, playerId) ==
  /\ Handled(pass(clearBotTimer(clearTurnTimer(service, gameId), gameId), gameId, playerId),
             "pass")

\* socket event 'leaveGame'
LeaveGame(gameId, playerId) ==
  /\ Handled(leaveGame(service, gameId, playerId), "leaveGame")

\* socket event 'leaveGameFromSummary'
LeaveGameFromSummary(gameId, playerId) ==
  /\ Handled(leaveGameFromSummary(service, gameId, playerId),
             "leaveGameFromSummary")

\* socket event 'updateHandOrder'
UpdateHandOrder(gameId, playerId, hand) ==
  /\ Handled(updateHandOrder(service, gameId, playerId, hand), "updateHandOrder")

\* socket event 'disconnect' (server.ts): the listener calls
\* gameService.handleDisconnect, which no GameService defines, and the
\* TypeError escapes it
Disconnect ==
  /\ Handled(Outcome(service, "throw"), "disconnect")

\* the turn timer of a game expires
TurnTimeout(gameId) ==
  /\ gameId \in DOMAIN turnTimers
  /\ Handled(turnTimeout(service, gameId), "turnTimeout")

Init ==
  /\ games = EmptyMap
  /\ turnTimers = EmptyMap
  /\ botTimers = EmptyMap
  /\ crashed = FALSE
  /\ last = Command("init", "ok")
  /\ ranksInDeck = NumRanks
  /\ suitsInDeck = 1
  /\ vin = NoInput
  /\ vout = NoOutput
  /\ din = NoDeal
  /\ dout = NotDealt
  /\ quiet = FALSE
  /\ bin = NoHand
  /\ bout = NoPatterns

Next ==
  \E gameId \in GameIds :
    \/ \E playerName \in JoinNames(gameId), isTestMode \in BOOLEAN, seed \in Seeds :
         Join(gameId, playerName, isTestMode, seed)
    \/ \E playerId \in Callers(gameId, 1), seed \in Seeds : StartGame(gameId, playerId, seed)
    \/ \E playerId \in Callers(gameId, 1), seed \in Seeds :
         RestartGame(gameId, playerId, seed)
    \/ \E playerId \in TurnCallers(gameId) :
         \E input \in PlayInputs(gameId, playerId) :
           PlayPattern(gameId, playerId, input.cards, input.hand)
    \/ \E playerId \in TurnCallers(gameId) : Pass(gameId, playerId)
    \/ \E playerId \in Callers(gameId, NumLeavers) : LeaveGame(gameId, playerId)
    \/ \E playerId \in Callers(gameId, NumLeavers) : LeaveGameFromSummary(gameId, playerId)
    \/ TurnTimeout(gameId)
    \/ Disconnect

Spec == Init /\ [][Next]_vars

\* One table of MIN_PLAYERS players from the lobby to the summary screen, with
\* a deck one rank larger, dealt from the first random stream; nobody leaves
InitTable ==
  /\ games = EmptyMap
  /\ turnTimers = EmptyMap
  /\ botTimers = EmptyMap
  /\ crashed = FALSE
  /\ last = Command("init", "ok")
  /\ ranksInDeck = NumRanks + 1
  /\ suitsInDeck = 1
  /\ vin = NoInput
  /\ vout = NoOutput
  /\ din = NoDeal
  /\ dout = NotDealt
  /\ quiet = FALSE
  /\ bin = NoHand
  /\ bout = NoPatterns

TableNames == {NamePool[i] : i \in 1..MIN_PLAYERS}

NextTable ==
  \E gameId \in GameIds :
    \/ \E playerName \in JoinNames(gameId) \cap TableNames, isTestMode \in BOOLEAN :
         Join(gameId, playerName, isTestMode, 0)
    \/ \E playerId \in Callers(gameId, 1) : StartGame(gameId, playerId, 0)
    \/ \E playerId \in Callers(gameId, 1) : RestartGame(gameId, playerId, 0)
    \/ \E playerId \in TurnCallers(gameId) :
         \E input \in PlayInputs(gameId, playerId) :
           PlayPattern(gameId, playerId, input.cards, input.hand)
    \/ \E playerId \in TurnCallers(gameId) : Pass(gameId, playerId)
    \/ TurnTimeout(gameId)

SpecTable == InitTable /\ [][NextTable]_vars

-----------------------------------------------------------------------------
(* The table of SpecTable whose players stop sending commands at some       *)
(* point of a game: from then on only the turn timer acts                   *)

\* the players of a game that is being played stop sending commands
Quiet(gameId) ==
  /\ ~quiet
  /\ ~crashed
  /\ hasGame(games, gameId)
  /\ games[gameId].status = "playing"
  /\ quiet' = TRUE
  /\ UNCHANGED <<games, turnTimers, botTimers, crashed, last, ranksInDeck, suitsInDeck,
                 vin, vout, din, dout, bin, bout>>

NextQuiet ==
  \E gameId \in GameIds :
    \/ ~quiet /\ \E playerName \in JoinNames(gameId) \cap TableNames :
                   Join(gameId, playerName, FALSE, 0)
    \/ ~quiet /\ \E playerId \in firstSeats(gameId, 1) : StartGame(gameId, playerId, 0)
    \/ ~quiet /\ \E playerId \in TurnCallers(gameId) :
                   \E input \in PlayInputs(gameId, playerId) :
                     PlayPattern(gameId, playerId, input.cards, input.hand)
    \/ ~quiet /\ \E playerId \in TurnCallers(gameId) : Pass(gameId, playerId)
    \/ Quiet(gameId)
    \/ TurnTimeout(gameId)

\* a pending timer eventually fires
TimersFire == \A gameId \in GameIds : WF_vars(TurnTimeout(gameId))

SpecQuiet == InitTable /\ [][NextQuiet]_vars /\ TimersFire

-----------------------------------------------------------------------------
(* The validator on its own: the initial state draws the arguments of one  *)
(* call of validatePattern, the only step makes the call                   *)

\* longest sequence of cards drawn in every order
MaxSeqLen == 3

natural(rank, suit) == Card(suit, rank, FALSE, FALSE, Null, Null)

assigned(joker, rank, suit) == [joker EXCEPT !.assignedRank = rank, !.assignedSuit = suit]

\* the lowest NumRanks ranks and the highest NumHighRanks ranks
ValidatorRanks ==
  SubSeq(Ranks, 1, NumRanks) \o SubSeq(Ranks, Len(Ranks) - NumHighRanks + 1, Len(Ranks))

\* the cards the arguments are made of: one suit at every rank, a second suit
\* at the two lowest ranks, jokers assigned and unassigned, the details card
ValidatorCards ==
  {natural(ValidatorRanks[i], "hearts") : i \in 1..Len(ValidatorRanks)}
  \cup {natural(Ranks[i], "spades") : i \in 1..2}
  \cup {assigned(Joker1, Ranks[i], "hearts") : i \in 1..2}
  \cup {assigned(Joker1, Ranks[1], "spades"), assigned(Joker2, Ranks[1], "spades"),
        assigned(Joker2, Ranks[3], "hearts"), Joker1, Details}

\* the sets of size n as sequences, in one order each
RECURSIVE seqOfCards(_)
seqOfCards(S) ==
  IF S = {} THEN <<>>
  ELSE LET c == CHOOSE x \in S : TRUE IN <<c>> \o seqOfCards(S \ {c})

\* all 13 ranks of one suit, and one card more
FullRun == [i \in 1..Len(Ranks) |-> natural(Ranks[i], "hearts")]
LongPlays == {FullRun, FullRun \o <<natural(Ranks[1], "spades")>>,
              SubSeq(FullRun, 1, 5), <<FullRun[1], FullRun[2], FullRun[3], FullRun[5]>>}

\* an opening play: every sequence of up to MaxSeqLen cards, every set of
\* MaxSeqLen + 1 cards, and the long plays
OpeningPlays ==
  UNION {[1..n -> ValidatorCards] : n \in 0..MaxSeqLen}
  \cup {seqOfCards(S) : S \in {T \in SUBSET ValidatorCards : Cardinality(T) = MaxSeqLen + 1}}
  \cup LongPlays

Families == {Null, "single", "pair", "consecutive", "group-3", "group-4"}

\* the previous plays of a follow-up call
PreviousPlays ==
  {<<>>, <<Details>>, <<Details, natural(Ranks[1], "hearts")>>,
   <<natural(Ranks[2], "hearts")>>,
   <<natural(Ranks[2], "hearts"), natural(Ranks[2], "spades")>>,
   <<natural(Ranks[1], "hearts"), natural(Ranks[2], "hearts")>>}

FollowUpPlays == UNION {[1..n -> ValidatorCards] : n \in 0..2}

ValidatorInput(cards, prev, family) == [cards |-> cards, prev |-> prev, family |-> family]

ValidatorInputs ==
  {ValidatorInput(cards, NoPlay, Null) : cards \in OpeningPlays}
  \cup {ValidatorInput(cards, SomePlay(prev), family) :
          cards \in FollowUpPlays, prev \in PreviousPlays, family \in Families}

InitValidator ==
  /\ games = EmptyMap
  /\ turnTimers = EmptyMap
  /\ botTimers = EmptyMap
  /\ crashed = FALSE
  /\ last = Command("init", "ok")
  /\ ranksInDeck = NumRanks
  /\ suitsInDeck = 1
  /\ vin \in ValidatorInputs
  /\ vout = NoOutput
  /\ din = NoDeal
  /\ dout = NotDealt
  /\ quiet = FALSE
  /\ bin = NoHand
  /\ bout = NoPatterns

\* validatePattern(cards, prev, family) and, as playPattern does once it holds,
\* updatePattern(cards, game)
Validate ==
  /\ ~vout.done
  /\ vout' = [done |-> TRUE,
              valid |-> validatePattern(vin.cards, vin.prev, vin.family),
              family |-> IF validatePattern(vin.cards, vin.prev, vin.family)
                         THEN updatePattern(vin.cards, vin.family) ELSE vin.family]
  /\ UNCHANGED <<games, turnTimers, botTimers, crashed, last, ranksInDeck, suitsInDeck,
                 vin, din, dout, quiet, bin, bout>>

NextValidator == Validate

SpecValidator == InitValidator /\ [][NextValidator]_vars

-----------------------------------------------------------------------------
(* The deck on its own: the initial state draws the size of the deck, the  *)
(* number of seats and the random draws; the steps build the deck, shuffle *)
(* it and deal it                                                          *)

\* number of random streams the deck is shuffled with
NumShuffles == 2

ShuffleSeeds == 0..(NumShuffles - 1)

EmptyService == [games |-> EmptyMap, turnTimers |-> EmptyMap, botTimers |-> EmptyMap]

\* the service after createGame and n - 1 calls of joinGame
RECURSIVE lobby(_, _)
lobby(gameId, n) ==
  IF n <= 1 THEN createGame(EmptyService, gameId, NamePool[1], FALSE, 0).st
  ELSE joinGame(lobby(gameId, n - 1), gameId, NamePool[n]).st

\* every outcome of the draws of the loop that shuffles n player indices:
\* at loop index i, j is one of 0..i
DealDraws(n) == {d \in [1..(n - 1) -> 0..(n - 1)] : \A i \in 1..(n - 1) : d[i] <= i}

DealInput(n, seed, draws) == [n |-> n, seed |-> seed, draws |-> draws]

DealInputs ==
  UNION {{DealInput(n, seed, d) : seed \in ShuffleSeeds, d \in DealDraws(n)} :
           n \in 1..MAX_PLAYERS}

\* the modelled deck, or the program's deck of all suits and ranks
DeckSizes == {<<NumRanks, 1>>, <<Len(Ranks), Len(Suits)>>}

InitDeal ==
  /\ games = EmptyMap
  /\ turnTimers = EmptyMap
  /\ botTimers = EmptyMap
  /\ crashed = FALSE
  /\ last = Command("init", "ok")
  /\ \E size \in DeckSizes : ranksInDeck = size[1] /\ suitsInDeck = size[2]
  /\ vin = NoInput
  /\ vout = NoOutput
  /\ din \in DealInputs
  /\ dout = NotDealt
  /\ quiet = FALSE
  /\ bin = NoHand
  /\ bout = NoPatterns

dealFrame == <<games, turnTimers, botTimers, crashed, last, ranksInDeck, suitsInDeck,
               vin, vout, din, quiet, bin, bout>>

\* createGame and the joins: the game holds createDeck() and din.n seats
CreateDeck ==
  /\ dout.stage = "none"
  /\ dout' = [stage |-> "created", game |-> lobby("g", din.n).games["g"]]
  /\ UNCHANGED dealFrame

\* this.shuffle(game.deck)
Shuffle ==
  /\ dout.stage = "created"
  /\ dout' = [stage |-> "shuffled",
              game |-> [dout.game EXCEPT !.deck = shuffle(@, din.seed)]]
  /\ UNCHANGED dealFrame

\* this.deal(game)
Deal ==
  /\ dout.stage = "shuffled"
  /\ dout' = [stage |-> "dealt", game |-> dealBy(dout.game, din.draws)]
  /\ UNCHANGED dealFrame

NextDeal == CreateDeck \/ Shuffle \/ Deal

SpecDeal == InitDeal /\ [][NextDeal]_vars

-----------------------------------------------------------------------------
(* The bot's search on its own: the initial state draws the bot's hand,    *)
(* the top of the pile and the family of the round; the only step is the   *)
(* search playBotTurn makes before it plays or passes                      *)

\* number of ranks, lowest first, of the cards a bot holds
NumBotRanks == 3
\* largest hand of a bot
MaxBotHand == 3

\* the cards a bot's hand is drawn from, as they are dealt
BotCards ==
  {natural(Ranks[i], suit) : i \in 1..NumBotRanks, suit \in {"hearts", "diamonds"}}
  \cup {Joker1, Joker2, Details}

\* hands of different cards, in every order
BotHands ==
  {hand \in UNION {[1..n -> BotCards] : n \in 1..MaxBotHand} :
     \A i, j \in 1..Len(hand) : hand[i] = hand[j] => i = j}

BotTable(prev, family) == [prev |-> prev, family |-> family]

\* the start of a round, and the top of the pile with the family it set
BotTables ==
  {BotTable(NoPlay, Null),
   BotTable(SomePlay(<<natural(Ranks[1], "spades")>>), "single"),
   BotTable(SomePlay(<<natural(Ranks[1], "spades"), natural(Ranks[1], "clubs")>>), "pair"),
   BotTable(SomePlay(<<natural(Ranks[1], "spades"), natural(Ranks[2], "spades")>>),
            "consecutive"),
   BotTable(SomePlay(<<natural(Ranks[1], "spades"), natural(Ranks[1], "clubs"),
                       assigned(Joker2, Ranks[1], "hearts")>>), "group-3")}

BotInput(hand, table) == [hand |-> hand, prev |-> table.prev, family |-> table.family]

\* a card is in the hand or on the pile, never both
BotInputs ==
  {BotInput(hand, table) : hand \in BotHands, table \in BotTables}
  \ {in \in {BotInput(hand, table) : hand \in BotHands, table \in BotTables} :
       in.prev # NoPlay
       /\ \E i \in 1..Len(in.hand), j \in 1..Len(in.prev[1]) :
            cardId(in.hand[i]) = cardId(in.prev[1][j])}

InitBot ==
  /\ games = EmptyMap
  /\ turnTimers = EmptyMap
  /\ botTimers = EmptyMap
  /\ crashed = FALSE
  /\ last = Command("init", "ok")
  /\ ranksInDeck = NumRanks
  /\ suitsInDeck = 1
  /\ vin = NoInput
  /\ vout = NoOutput
  /\ din = NoDeal
  /\ dout = NotDealt
  /\ quiet = FALSE
  /\ bin \in BotInputs
  /\ bout = NoPatterns

\* playBotTurn: validPatterns = getValidBotPatterns(bot.hand, prevPattern,
\* game.currentPattern); the bot passes when the list is empty
FindPatterns ==
  /\ ~bout.done
  /\ bout' = [done |-> TRUE,
              validPatterns |-> getValidBotPatterns(bin.hand, bin.prev, bin.family)]
  /\ UNCHANGED <<games, turnTimers, botTimers, crashed, last, ranksInDeck, suitsInDeck,
                 vin, vout, din, dout, quiet, bin>>

NextBot == FindPatterns

SpecBot == InitBot /\ [][NextBot]_vars

-----------------------------------------------------------------------------
(* Single-player mode: one player and its bots from the lobby to the summary *)
(* screen and back; the bots play when their timers fire                    *)

\* ranks and suits of the deck dealt in single-player mode
SoloRanks == 4
SoloSuits == 2

\* longest play the player of a single-player game submits
SoloPlayLen == 1

\* the plays the player of a single-player game submits
soloInputs(gameId, playerId) ==
  {input \in PlayInputs(gameId, playerId) : Len(input.cards) <= SoloPlayLen}

\* the largest number of bots a client asks for
MaxBots == 2

BotNamePool == <<"x", "y", "z", "w">>

\* the player names a client sends with 'joinSingle': a name of the pool, and
\* the name whose seat id is the id of the first bot
SoloNames == {NamePool[1], "bot1"}

\* the bot names a client sends with 'joinSingle'
SoloBots == {SubSeq(BotNamePool, 1, k) : k \in 1..MaxBots}

\* the seats of a game that are not bots, and a caller without a seat when
\* there is no game
soloCallers(gameId) ==
  IF hasGame(games, gameId)
  THEN {games[gameId].players[i].id :
          i \in {j \in 1..Len(games[gameId].players) : ~games[gameId].players[j].isBot}}
  ELSE {Stranger}

\* socket event 'joinSingle'
JoinSingle(gameId, playerName, botNames) ==
  /\ Handled(joinSinglePlayer(service, gameId, playerName, botNames), "joinSingle")

\* the bot timer of a game fires; draw is the outcome of Math.random() < 0.2
BotTimeout(gameId, draw) ==
  /\ gameId \in DOMAIN botTimers
  /\ Handled(playBotTurn(clearBotTimer(service, gameId), gameId,
                         botTimers[gameId].playerId, draw),
             "botTimeout")

InitSolo ==
  /\ games = EmptyMap
  /\ turnTimers = EmptyMap
  /\ botTimers = EmptyMap
  /\ crashed = FALSE
  /\ last = Command("init", "ok")
  /\ ranksInDeck = SoloRanks
  /\ suitsInDeck = SoloSuits
  /\ vin = NoInput
  /\ vout = NoOutput
  /\ din = NoDeal
  /\ dout = NotDealt
  /\ quiet = FALSE
  /\ bin = NoHand
  /\ bout = NoPatterns

NextSolo ==
  \E gameId \in GameIds :
    \/ \E playerName \in SoloNames, botNames \in SoloBots :
         JoinSingle(gameId, playerName, botNames)
    \/ \E playerId \in soloCallers(gameId) : StartGame(gameId, playerId, 0)
    \/ \E playerId \in soloCallers(gameId) : RestartGame(gameId, playerId, 0)
    \/ \E playerId \in soloCallers(gameId) :
         \E input \in soloInputs(gameId, playerId) :
           PlayPattern(gameId, playerId, input.cards, input.hand)
    \/ \E playerId \in soloCallers(gameId) : Pass(gameId, playerId)
    \/ \E playerId \in soloCallers(gameId) : LeaveGame(gameId, playerId)
    \/ \E playerId \in soloCallers(gameId) : LeaveGameFromSummary(gameId, playerId)
    \/ TurnTimeout(gameId)
    \/ \E draw \in BOOLEAN : BotTimeout(gameId, draw)
    \/ Disconnect

SpecSolo == InitSolo /\ [][NextSolo]_vars

-----------------------------------------------------------------------------
(* Bot turns: a single-player game in which the first bot has the turn with *)
(* a hand of up to MaxTurnHand cards, at the start of a round or over a     *)
(* pile; from there the timers alone act                                    *)

\* largest hand of the bot at the turn
MaxTurnHand == 6

\* the cards of s that are in the set C, in the order of s
RECURSIVE inOrder(_, _)
inOrder(s, C) ==
  IF s = <<>> THEN <<>>
  ELSE (IF s[1] \in C THEN <<s[1]>> ELSE <<>>) \o inOrder(Tail(s), C)

\* the cards the bot's hand is drawn from, in the order of the deck
TurnCards ==
  <<natural(Ranks[1], "hearts"), natural(Ranks[2], "hearts"), natural(Ranks[3], "hearts"),
    natural(Ranks[1], "diamonds"), natural(Ranks[2], "diamonds"),
    Joker1, Joker2, Details>>

TurnHands ==
  {inOrder(TurnCards, C) :
     C \in {D \in SUBSET Range(TurnCards) : D # {} /\ Cardinality(D) <= MaxTurnHand}}

\* the bot's hand and the table never share a card
TurnInputs ==
  {in \in {BotInput(hand, table) : hand \in TurnHands, table \in BotTables} :
     in.prev = NoPlay
     \/ \A i \in 1..Len(in.hand), j \in 1..Len(in.prev[1]) :
          cardId(in.hand[i]) # cardId(in.prev[1][j])}

\* the game of a bot turn: the player, the bot at the turn and a second bot;
\* the pile was played by the player
turnGame(gameId, in) ==
  [id |-> gameId,
   players |->
     <<[Player(playerIdOf(gameId, NamePool[1]), NamePool[1], FALSE) EXCEPT
          !.hand = <<natural(Ranks[4], "spades"), natural(Ranks[5], "spades")>>],
       [Player(botIdOf(gameId, 0), "x", TRUE) EXCEPT !.hand = in.hand],
       [Player(botIdOf(gameId, 1), "y", TRUE) EXCEPT
          !.hand = <<natural(Ranks[4], "clubs"), natural(Ranks[5], "clubs")>>]>>,
   deck |-> <<>>,
   pile |-> IF in.prev = NoPlay THEN <<>> ELSE <<in.prev[1]>>,
   currentTurn |-> 1,
   status |-> "playing",
   passCount |-> 0,
   currentPattern |-> in.family,
   lastPlayedPlayerId |-> IF in.prev = NoPlay THEN Null
                          ELSE playerIdOf(gameId, NamePool[1]),
   isTestMode |-> FALSE,
   passedPlayerIds |-> <<>>,
   isSinglePlayer |-> TRUE]

InitTurn ==
  /\ bin \in TurnInputs
  /\ games = [g \in GameIds |-> turnGame(g, bin)]
  /\ turnTimers = [g \in GameIds |-> Timer(botIdOf(g, 0), "live")]
  /\ botTimers = [g \in GameIds |-> [playerId |-> botIdOf(g, 0)]]
  /\ crashed = FALSE
  /\ last = Command("init", "ok")
  /\ ranksInDeck = NumRanks
  /\ suitsInDeck = 1
  /\ vin = NoInput
  /\ vout = NoOutput
  /\ din = NoDeal
  /\ dout = NotDealt
  /\ quiet = FALSE
  /\ bout = NoPatterns

NextTurn ==
  \E gameId \in GameIds :
    \/ TurnTimeout(gameId)
    \/ \E draw \in BOOLEAN : BotTimeout(gameId, draw)

SpecTurn == InitTurn /\ [][NextTurn]_vars

-----------------------------------------------------------------------------
(* The table of SpecTable, with a seat that leaves the finished game, whose  *)
(* players follow the rules: the current player submits a legal play when   *)
(* it has one and passes otherwise, unless its turn timer fires first       *)

\* every selection of cards of a hand, in hand order, with its jokers assigned
\* or left unassigned, and the hand that remains
wholePlays(playerHand) ==
  UNION {
    {PlayInput(bindAll(sel, b1, b2), remainingHand(playerHand, sel)) :
       b1 \in (IF hasJoker(sel, "joker1") THEN JokerBindings ELSE {Unbound}),
       b2 \in (IF hasJoker(sel, "joker2") THEN JokerBindings ELSE {Unbound})}
    \cup {PlayInput(sel, remainingHand(playerHand, sel))} :
      sel \in {[i \in 1..Len(seqOfSet(I)) |-> playerHand[seqOfSet(I)[i]]] :
                I \in (SUBSET (1..Len(playerHand))) \ {{}}}}

\* the plays of the current player of a game that playPattern accepts
legalPlays(gameId) ==
  IF hasGame(games, gameId) /\ currentInRange(games[gameId])
  THEN {input \in wholePlays(currentPlayer(games[gameId]).hand) :
          playPattern(service, gameId, currentPlayer(games[gameId]).id,
                      input.cards, input.hand).result = "ok"}
  ELSE {}

\* the current player of a game that is being played submits a legal play, or
\* passes when it has none
Dutiful(gameId) ==
  /\ hasGame(games, gameId)
  /\ games[gameId].status = "playing"
  /\ currentInRange(games[gameId])
  /\ IF legalPlays(gameId) # {}
     THEN \E input \in legalPlays(gameId) :
            PlayPattern(gameId, currentPlayer(games[gameId]).id, input.cards, input.hand)
     ELSE Pass(gameId, currentPlayer(games[gameId]).id)

\* the first seat of a finished game, which leaves from the summary screen
summarySeats(gameId) ==
  IF hasGame(games, gameId) /\ games[gameId].status = "finished"
  THEN firstSeats(gameId, NumLeavers) ELSE {}

NextDuty ==
  \E gameId \in GameIds :
    \/ \E playerName \in JoinNames(gameId) \cap TableNames :
         Join(gameId, playerName, FALSE, 0)
    \/ \E playerId \in Callers(gameId, 1) : StartGame(gameId, playerId, 0)
    \/ \E playerId \in Callers(gameId, 1) : RestartGame(gameId, playerId, 0)
    \/ \E playerId \in summarySeats(gameId) : LeaveGame(gameId, playerId)
    \/ Dutiful(gameId)
    \/ TurnTimeout(gameId)

\* the pass the current player of a game sends
dutyPass(gameId) ==
  pass(clearBotTimer(clearTurnTimer(service, gameId), gameId),
       gameId, currentPlayer(games[gameId]).id)

\* the current player's move would change the service: Dutiful(gameId) is
\* enabled
dutyEnabled(gameId) ==
  /\ ~crashed
  /\ hasGame(games, gameId)
  /\ games[gameId].status = "playing"
  /\ currentInRange(games[gameId])
  /\ \/ legalPlays(gameId) # {}
     \/ dutyPass(gameId).result = "throw"
     \/ dutyPass(gameId).st # service

\* a step of a player: only Dutiful sends 'playPattern' and 'pass' here
dutyStep(gameId) == gameId \in GameIds /\ last'.op \in {"playPattern", "pass"}

\* the current player eventually acts: weak fairness of Dutiful(gameId),
\* WF_vars(Dutiful(gameId)), written with the state predicate that says it
\* is enabled and the steps that are its steps
PlayersAct ==
  \A gameId \in GameIds :
    []<>(~dutyEnabled(gameId)) \/ []<><<dutyStep(gameId)>>_vars

SpecDuty == InitTable /\ [][NextDuty]_vars /\ PlayersAct

-----------------------------------------------------------------------------
(* The lobby: players sit down until the table is full and beyond or leave  *)
(* it; a game is started at any size, played, timed and restarted           *)

\* the names a 'join' asks for: the first name of the whole pool that is not
\* seated, the name of the first seat, and no name at all
lobbyNames(gameId) ==
  LET taken == IF hasGame(games, gameId)
               THEN {games[gameId].players[i].name : i \in 1..Len(games[gameId].players)}
               ELSE {}
      free == {i \in 1..Len(NamePool) : NamePool[i] \notin taken}
  IN {NamePool[i] : i \in {j \in free : \A k \in free : j <= k}}
     \cup (IF hasGame(games, gameId) THEN {games[gameId].players[1].name} ELSE {})
     \cup {""}

\* the callers of 'leaveGame' in the lobby: the first seat of a waiting game
lobbySeats(gameId) ==
  IF hasGame(games, gameId) /\ games[gameId].status = "waiting"
  THEN firstSeats(gameId, 1) ELSE {}

NextLobby ==
  \E gameId \in GameIds :
    \/ \E playerName \in lobbyNames(gameId), isTestMode \in BOOLEAN :
         Join(gameId, playerName, isTestMode, 0)
    \/ \E playerId \in Callers(gameId, 1) : StartGame(gameId, playerId, 0)
    \/ \E playerId \in TurnCallers(gameId) :
         \E input \in PlayInputs(gameId, playerId) :
           PlayPattern(gameId, playerId, input.cards, input.hand)
    \/ \E playerId \in TurnCallers(gameId) : Pass(gameId, playerId)
    \/ \E playerId \in Callers(gameId, 1) : RestartGame(gameId, playerId, 0)
    \/ \E playerId \in lobbySeats(gameId) : LeaveGame(gameId, playerId)
    \/ TurnTimeout(gameId)

SpecLobby == Init /\ [][NextLobby]_vars

-----------------------------------------------------------------------------
(* A crowded table: up to NumCrowd players sit down, the game is started,   *)
(* cards are played, hands are reordered, and players of the started game   *)
(* send 'leaveGameFromSummary'                                              *)

\* the largest number of seats of the crowded table
NumCrowd == 5

\* the name a 'join' asks for: the first of the first NumCrowd names of the
\* pool that is not seated
crowdNames(gameId) ==
  LET taken == IF hasGame(games, gameId)
               THEN {games[gameId].players[i].name : i \in 1..Len(games[gameId].players)}
               ELSE {}
      free == {i \in 1..NumCrowd : NamePool[i] \notin taken}
  IN {NamePool[i] : i \in {j \in free : \A k \in free : j <= k}}

\* the seats of a game that has been started
startedSeats(gameId) ==
  IF hasGame(games, gameId) /\ games[gameId].status # "waiting"
  THEN firstSeats(gameId, NumCrowd) ELSE {}

NextCrowd ==
  \E gameId \in GameIds :
    \/ \E playerName \in crowdNames(gameId) : Join(gameId, playerName, FALSE, 0)
    \/ \E playerId \in firstSeats(gameId, 1) : StartGame(gameId, playerId, 0)
    \/ \E playerId \in TurnCallers(gameId) : \E input \in PlayInputs(gameId, playerId) :
         PlayPattern(gameId, playerId, input.cards, input.hand)
    \/ \E playerId \in startedSeats(gameId) : LeaveGameFromSummary(gameId, playerId)
    \/ \E playerId \in Callers(gameId, 1) : \E hand \in OrderInputs(gameId, playerId) :
         UpdateHandOrder(gameId, playerId, hand)

SpecCrowd == Init /\ [][NextCrowd]_vars

-----------------------------------------------------------------------------
(* Properties                                                              *)

\* the registered games that are not in test mode
liveGames == {g \in DOMAIN games : ~games[g].isTestMode}

\* the registered games that have been started
startedGames == {g \in DOMAIN games : games[g].status # "waiting"}

\* the position of a rank in 3 < 4 < ... < K < A < 2
rankIndex(rank) == CHOOSE i \in 1..Len(Ranks) : Ranks[i] = rank

allBound(cards) ==
  \A i \in 1..Len(cards) :
    cards[i].isJoker => (cards[i].assignedRank # Null /\ cards[i].assignedSuit # Null)

oneRank(cards) == Cardinality({effRank(cards[i]) : i \in 1..Len(cards)}) = 1

oneSuit(cards) == Cardinality({effSuit(cards[i]) : i \in 1..Len(cards)}) = 1

\* the ranks are Len(cards) different ranks that follow one another
risingByOne(cards) ==
  LET idx == {rankIndex(effRank(cards[i])) : i \in 1..Len(cards)}
  IN /\ Cardinality(idx) = Len(cards)
     /\ \A a \in idx, b \in idx : a - b < Len(cards)

\* the family of a play of bound, non-details cards as the rules give it; ""
\* when the play is illegal
familyOf(cards) ==
  IF Len(cards) = 1 THEN "single"
  ELSE IF Len(cards) = 2 /\ oneRank(cards) THEN "pair"
  ELSE IF Len(cards) = 3 /\ oneRank(cards) THEN "group-3"
  ELSE IF Len(cards) = 4 /\ oneRank(cards) THEN "group-4"
  ELSE IF Len(cards) >= 2 /\ Len(cards) <= 13 /\ oneSuit(cards) /\ risingByOne(cards)
    THEN "consecutive"
  ELSE ""

\* the family of a play on the pile: the details card plays as a single
familyOfPlay(cards) == IF hasDetails(cards) THEN "single" ELSE familyOf(cards)

\* the strength of a card: the position of its rank, above all of them for
\* the details card, below all of them for a joker that is not assigned
cardStrength(card) ==
  IF card.isDetails THEN Len(Ranks) + 1
  ELSE IF effRank(card) = Null THEN 0
  ELSE rankIndex(effRank(card))

\* the strength of a play: that of its lowest card, which is the shared rank
\* of a single, pair or group
strength(cards) ==
  IF Len(cards) = 0 THEN 0
  ELSE CHOOSE v \in {cardStrength(cards[i]) : i \in 1..Len(cards)} :
         \A i \in 1..Len(cards) : v <= cardStrength(cards[i])

\* the play on top of the pile, if any
pileTop(game) == IF game.pile = <<>> THEN NoPlay ELSE SomePlay(game.pile[Len(game.pile)])

\* the hand of the caller, empty for a caller that is not seated
handOf(game, playerId) ==
  IF seated(game, playerId) THEN game.players[seatOf(game, playerId) + 1].hand ELSE <<>>

idsOf(cards) == {cardId(cards[i]) : i \in 1..Len(cards)}

\* the played cards are all in the caller's hand
owned(game, playerId, cards) == idsOf(cards) \subseteq idsOf(handOf(game, playerId))

\* the submitted hand is the caller's hand without the played cards
isRemainder(game, playerId, cards, hand) ==
  \A id \in idsOf(hand) \cup idsOf(handOf(game, playerId)) :
    Count(cardIds(hand), id) =
      IF id \in idsOf(cards) THEN 0 ELSE Count(cardIds(handOf(game, playerId)), id)

hasTurn(game, playerId) == currentInRange(game) /\ currentPlayer(game).id = playerId

\* the play passes the turn check (waived in test mode), the ownership check
\* and the resulting-hand check
passesChecks(game, playerId, cards, hand) ==
  /\ seated(game, playerId)
  /\ game.isTestMode \/ hasTurn(game, playerId)
  /\ owned(game, playerId, cards)
  /\ isRemainder(game, playerId, cards, hand)

Offer(gameId, playerId, cards, hand) ==
  [gameId |-> gameId, playerId |-> playerId, cards |-> cards, hand |-> hand]

\* the plays the clients may submit in a state
Offers ==
  UNION {UNION {{Offer(g, p, input.cards, input.hand) : input \in PlayInputs(g, p)} :
                  p \in TurnCallers(g)} : g \in DOMAIN games}

\* what playPattern answers to an offer
answer(o) == playPattern(service, o.gameId, o.playerId, o.cards, o.hand)

rejected(o) == answer(o) = Outcome(service, "null")

accepted(o) == answer(o).result = "ok"

\* all card identities of the hands, in seat order
RECURSIVE handIds(_, _)
handIds(game, i) ==
  IF i > Len(game.players) THEN <<>>
  ELSE cardIds(game.players[i].hand) \o handIds(game, i + 1)

\* all card identities on the pile
pileIds(game) == UNION {idsOf(game.pile[i]) : i \in 1..Len(game.pile)}

\* the identities in the hands or on the pile
cardsInGame(game) == Range(handIds(game, 1)) \cup pileIds(game)

----------------------------------------------------------------------------
\* C1: whenever a registered game has status 'playing', currentTurn is a valid
\* seat index and the player at that seat has a non-empty hand.
C1_CurrentTurnHoldsCards ==
  \A g \in DOMAIN games :
    games[g].status = "playing" =>
      /\ currentInRange(games[g])
      /\ Len(currentPlayer(games[g]).hand) > 0

\* C2: in every mode, test mode included, a play that passes the turn, ownership and
\* resulting-hand checks is accepted if and only if validatePattern holds of it
\* against the top of the pile and the round's family.
C2_AcceptedIffValidInEveryMode ==
  \A o \in Offers :
    passesChecks(games[o.gameId], o.playerId, o.cards, o.hand) =>
      (accepted(o) <=>
         validatePattern(o.cards, pileTop(games[o.gameId]), games[o.gameId].currentPattern))

\* the same of the games outside test mode only, where playPattern hands the
\* top of the pile and the round's family to validatePattern (line 780)
C2_AcceptedIffValid ==
  \A o \in Offers :
    (o.gameId \in liveGames /\ passesChecks(games[o.gameId], o.playerId, o.cards, o.hand)) =>
      (accepted(o) <=>
         validatePattern(o.cards, pileTop(games[o.gameId]), games[o.gameId].currentPattern))

\* one step keeps the family of a round that has one, unless it is a pass
\* that clears the pile or a restart, and a play it puts on the pile is of
\* that family
C3_Step ==
  \A g \in (DOMAIN games) \cap (DOMAIN games') :
    (~games[g].isTestMode /\ games[g].currentPattern # Null) =>
      /\ games'[g].currentPattern # games[g].currentPattern =>
           \/ last'.op = "restartGame"
           \/ /\ last'.op \in {"pass", "turnTimeout"}
              /\ games'[g].pile = <<>>
              /\ games'[g].currentPattern = Null
      /\ Len(games'[g].pile) = Len(games[g].pile) + 1 =>
           familyOfPlay(games'[g].pile[Len(games'[g].pile)]) = games[g].currentPattern

\* C3: outside test mode, once a play has set the round's family, the family
\* keeps its value across every accepted play and every pass that does not
\* close the round; it changes only when a pass closes the round or the game
\* is restarted, and no play of another family is put on the pile.
C3_FamilyImmutable == [][C3_Step]_vars

\* C3 witness: outside test mode a third play in a row was accepted in a round
\* of pairs or runs while the player to move is offered a single.
C3_Witness ==
  \E g \in liveGames :
    /\ last = Command("playPattern", "ok")
    /\ Len(games[g].pile) >= 2
    /\ games[g].currentPattern \in {"pair", "consecutive"}
    /\ \E o \in Offers :
         /\ o.gameId = g /\ passesChecks(games[g], o.playerId, o.cards, o.hand)
         /\ allBound(o.cards) /\ familyOfPlay(o.cards) = "single"

\* C4: outside test mode, in a round of runs every play on the pile has as
\* many cards as the round's first play, and a play of another number of cards
\* is rejected and leaves the game unchanged.
C4_RunLengthFixed ==
  \A g \in liveGames :
    games[g].currentPattern = "consecutive" =>
      /\ \A i \in 1..Len(games[g].pile) : Len(games[g].pile[i]) = Len(games[g].pile[1])
      /\ \A o \in Offers :
           (o.gameId = g /\ games[g].pile # <<>>
            /\ Len(o.cards) # Len(games[g].pile[1])) => rejected(o)

\* C4 witness: outside test mode, in a round of runs with two runs on the
\* pile, the player to move is offered a run of another length that passes
\* the checks and is stronger than the top of the pile.
C4_Witness ==
  \E g \in liveGames :
    /\ games[g].currentPattern = "consecutive"
    /\ Len(games[g].pile) >= 1
    /\ last = Command("playPattern", "ok")
    /\ \E o \in Offers :
         /\ o.gameId = g /\ passesChecks(games[g], o.playerId, o.cards, o.hand)
         /\ allBound(o.cards) /\ familyOfPlay(o.cards) = "consecutive"
         /\ Len(o.cards) # Len(games[g].pile[1])
         /\ strength(o.cards) > strength(games[g].pile[Len(games[g].pile)])

\* C5: outside test mode, every play on the pile other than the round's first
\* is strictly stronger than the play beneath it, and a play that is not
\* stronger than the top of the pile is rejected.
C5_StrictlyStronger ==
  \A g \in liveGames :
    /\ \A i \in 2..Len(games[g].pile) :
         strength(games[g].pile[i]) > strength(games[g].pile[i - 1])
    /\ \A o \in Offers :
         (o.gameId = g /\ games[g].pile # <<>>
          /\ strength(o.cards) <= strength(games[g].pile[Len(games[g].pile)])) =>
           rejected(o)

\* C5 witness: outside test mode a play was accepted over another, and the
\* player to move is offered a play of the round's family, passing the checks,
\* that is exactly as strong as the top of the pile.
C5_Witness ==
  \E g \in liveGames :
    /\ last = Command("playPattern", "ok")
    /\ Len(games[g].pile) >= 2
    /\ \E o \in Offers :
         /\ o.gameId = g /\ passesChecks(games[g], o.playerId, o.cards, o.hand)
         /\ allBound(o.cards) /\ familyOfPlay(o.cards) = games[g].currentPattern
         /\ strength(o.cards) = strength(games[g].pile[Len(games[g].pile)])

\* the arguments of the call are an opening play: no previous play, no family,
\* no details card, every joker assigned
opening == vin.prev = NoPlay /\ vin.family = Null /\ ~hasDetails(vin.cards) /\ allBound(vin.cards)

\* C6: for an opening play without the details card and with all jokers
\* assigned, validatePattern holds exactly when the cards are a single, a pair,
\* a group of 3 or 4, or a run of 2 to 13 cards of one suit, and updatePattern
\* then records that family.
C6_OpeningPlayClassified ==
  (vout.done /\ opening) =>
    /\ vout.valid <=> familyOf(vin.cards) # ""
    /\ vout.valid => vout.family = familyOf(vin.cards)

\* C6 witness: validatePattern was called on an opening play of three cards,
\* one of them a joker, that is a run, and held.
C6_Witness ==
  /\ vout.done /\ opening /\ vout.valid
  /\ Len(vin.cards) = 3 /\ vout.family = "consecutive"
  /\ \E i \in 1..3 : vin.cards[i].isJoker

\* C7: whenever the previous play contains the details card, validatePattern
\* rejects every candidate play, a play of the details card included.
C7_NothingOverDetails ==
  (vout.done /\ vin.prev # NoPlay /\ hasDetails(vin.prev[1])) => ~vout.valid

\* C7 witness: validatePattern was called with a previous play that contains
\* the details card and a candidate that is the details card alone.
C7_Witness ==
  /\ vout.done /\ vin.prev # NoPlay /\ hasDetails(vin.prev[1])
  /\ vin.cards = <<Details>>

\* C8: no pile entry of a game outside test mode lists a card identity twice
\* (the claim says so of every game: playPattern rejects such a play).
C8_NoIdentityTwiceInPlay ==
  \A g \in liveGames :
    \A i \in 1..Len(games[g].pile) :
      Cardinality(idsOf(games[g].pile[i])) = Len(games[g].pile[i])

\* what an accepted play leaves in the caller's hand: the old hand without
\* the played cards
handAfter(o) ==
  LET played == answer(o).st.games[o.gameId]
  IN \A id \in idsOf(handOf(played, o.playerId)) \cup idsOf(handOf(games[o.gameId], o.playerId)) :
       Count(cardIds(handOf(played, o.playerId)), id) =
         IF id \in idsOf(o.cards) THEN 0
         ELSE Count(cardIds(handOf(games[o.gameId], o.playerId)), id)

\* C9: in every mode, test mode included, a play whose cards are not all in the caller's
\* hand, or whose resulting hand is not the hand minus the played cards, is
\* rejected, and an accepted play leaves the hand minus the played cards.
C9_HandChecksInEveryMode ==
  \A o \in Offers :
    /\ (seated(games[o.gameId], o.playerId)
        /\ (~owned(games[o.gameId], o.playerId, o.cards)
            \/ ~isRemainder(games[o.gameId], o.playerId, o.cards, o.hand))) => ~accepted(o)
    /\ accepted(o) => handAfter(o)

\* the same of the games outside test mode only, where playPattern reaches the
\* ownership and resulting-hand checks (lines 760-778)
C9_HandChecks ==
  \A o \in Offers :
    o.gameId \in liveGames =>
      /\ (hasTurn(games[o.gameId], o.playerId)
          /\ (~owned(games[o.gameId], o.playerId, o.cards)
              \/ ~isRemainder(games[o.gameId], o.playerId, o.cards, o.hand))) => rejected(o)
      /\ accepted(o) => handAfter(o)

\* all card identities of the pile entries, oldest entry first
RECURSIVE pileIdSeq(_, _)
pileIdSeq(game, i) ==
  IF i > Len(game.pile) THEN <<>>
  ELSE cardIds(game.pile[i]) \o pileIdSeq(game, i + 1)

\* every card identity held in the hands and the pile entries, one element
\* per card
heldIds(game) == handIds(game, 1) \o pileIdSeq(game, 1)

\* in a started game no card identity is held twice in the hands and the pile
\* entries together
C10_NoCardTwice ==
  \A g \in startedGames : \A id \in Range(heldIds(games[g])) : Count(heldIds(games[g]), id) = 1

\* in a started game every card of the deck is in a hand or in a pile entry
C10_NoCardDisappears ==
  \A g \in startedGames : idsOf(createDeck) \subseteq cardsInGame(games[g])

\* C10: in every reachable state of a started game, in every mode, the cards
\* of all hands together with the cards of all pile entries contain every card
\* of the deck exactly once: none is duplicated and none disappears.
C10_EveryCardOnce ==
  \A g \in startedGames :
    \A id \in idsOf(createDeck) \cup Range(heldIds(games[g])) :
      Count(heldIds(games[g]), id) = (IF id \in idsOf(createDeck) THEN 1 ELSE 0)

\* outside test mode no card is in two hands, twice in a hand, or both in a
\* hand and in a pile entry
liveHandsShareNoCard ==
  \A g \in liveGames \cap startedGames :
    \A id \in Range(handIds(games[g], 1)) :
      /\ Count(handIds(games[g], 1), id) = 1
      /\ id \notin pileIds(games[g])

----------------------------------------------------------------------------
\* the deck has one card of every suit and rank, two jokers of different
\* identities and one details card, all of different identities
wellComposed(deck) ==
  /\ \A i \in 1..NumSuits, j \in 1..ranksInDeck :
       Cardinality({k \in 1..Len(deck) :
                      /\ deck[k].suit = DeckSuits[i] /\ deck[k].rank = DeckRanks[j]
                      /\ ~deck[k].isJoker /\ ~deck[k].isDetails}) = 1
  /\ Cardinality({k \in 1..Len(deck) : deck[k].isJoker}) = 2
  /\ Cardinality({cardId(deck[k]) : k \in {m \in 1..Len(deck) : deck[m].isJoker}}) = 2
  /\ Cardinality({k \in 1..Len(deck) : deck[k].isDetails}) = 1
  /\ Cardinality(idsOf(deck)) = Len(deck)

\* the deck is the program's: all suits and all ranks
fullDeck == suitsInDeck = Len(Suits) /\ ranksInDeck = Len(Ranks)

\* C11 as stated: the deck built by createDeck has exactly 54 cards: 4 suits x
\* 13 ranks, 2 distinct jokers and 1 details card, each of a distinct identity.
C11_DeckOf54 ==
  (dout.stage = "created" /\ fullDeck) =>
    /\ Len(dout.game.deck) = 54
    /\ wellComposed(dout.game.deck)

\* C11 amended: the deck built by createDeck has exactly 55 cards (suits x
\* ranks + 3 at every size of the deck): one card of every suit and rank, 2
\* distinct jokers and 1 details card, each of a distinct identity.
C11_DeckOf55 ==
  dout.stage = "created" =>
    /\ Len(dout.game.deck) = NumSuits * ranksInDeck + 3
    /\ fullDeck => Len(dout.game.deck) = 55
    /\ wellComposed(dout.game.deck)

\* C11 witness: createDeck has built the deck of 4 suits and 13 ranks.
C11_Witness ==
  /\ dout.stage = "created" /\ fullDeck
  /\ Len(dout.game.deck) > Len(Suits) * Len(Ranks)

\* C12: for every number of seats, every shuffle and every draw of deal, deal
\* puts each card of the deck into exactly one hand, leaves the deck empty and
\* gives every seat floor(deck / n) cards, plus one more to exactly deck mod n
\* seats.
C12_DealPartitionsDeck ==
  dout.stage = "dealt" =>
    LET game == dout.game
        n == Len(game.players)
        d == Len(createDeck)
    IN /\ n = din.n
       /\ game.deck = <<>>
       /\ Len(handIds(game, 1)) = d
       /\ \A id \in idsOf(createDeck) : Count(handIds(game, 1), id) = 1
       /\ \A i \in 1..n : Len(game.players[i].hand) \in {d \div n, (d \div n) + 1}
       /\ Cardinality({i \in 1..n : Len(game.players[i].hand) = (d \div n) + 1}) = d % n

\* C12 witness: the program's deck was dealt to more than two seats with a
\* remainder, the player indices having been shuffled out of seat order.
C12_Witness ==
  /\ dout.stage = "dealt" /\ fullDeck
  /\ din.n > 2
  /\ Len(createDeck) % din.n > 1
  /\ Len(dout.game.players[1].hand) < Len(dout.game.players[din.n].hand)

----------------------------------------------------------------------------
\* the callers of a command on a game: its seats and a caller without a seat
callersOf(game) == {game.players[i].id : i \in 1..Len(game.players)} \cup {Stranger}

\* the registered games outside test mode that are being played
playingGames == {g \in liveGames : games[g].status = "playing"}

\* the caller opens a fresh round: it has the turn, the pile is empty, no pass
\* is recorded and it holds cards
opensRound(game, playerId) ==
  /\ hasTurn(game, playerId)
  /\ Len(game.pile) = 0 /\ game.passCount = 0
  /\ Len(handOf(game, playerId)) > 0

\* C13: in a playing game outside test mode, pass answers null and changes
\* nothing when the caller has the turn at a fresh round (empty pile, no pass
\* recorded) and holds cards, and whenever the caller is not the current
\* player.
C13_PassRejected ==
  \A g \in playingGames :
    \A p \in callersOf(games[g]) :
      (opensRound(games[g], p) \/ ~hasTurn(games[g], p)) =>
        pass(service, g, p) = Outcome(service, "null")

----------------------------------------------------------------------------
\* the first seat after seat s, in cyclic seat order, whose hand is not empty
\* (0-based; s itself comes last)
nextHolderAfter(game, s) ==
  LET n == Len(game.players)
      k == CHOOSE d \in 1..n :
             /\ Len(game.players[((s + d) % n) + 1].hand) > 0
             /\ \A e \in 1..(d - 1) : Len(game.players[((s + e) % n) + 1].hand) = 0
  IN (s + k) % n

\* with the pass of playerId recorded, every seat that holds cards, other than
\* the last player to play, is in the passed set
othersAllPassed(game, playerId) ==
  \A i \in activeSeats(game) :
    game.players[i].id # game.lastPlayedPlayerId =>
      game.players[i].id \in Range(game.passedPlayerIds) \cup {playerId}

\* what C14 says of a pass of playerId that takes game to after
passAsClaimed(game, playerId, after) ==
  LET lastSeat == seatOf(game, game.lastPlayedPlayerId)
  IN IF othersAllPassed(game, playerId)
     THEN /\ after.pile = <<>>
          /\ after.currentPattern = Null
          /\ after.passCount = 0
          /\ after.passedPlayerIds = <<>>
          /\ lastSeat >= 0 =>
               after.currentTurn =
                 IF Len(game.players[lastSeat + 1].hand) > 0 THEN lastSeat
                 ELSE nextHolderAfter(game, lastSeat)
     ELSE /\ after.pile = game.pile
          /\ after.currentPattern = game.currentPattern
          /\ after.currentTurn = nextHolderAfter(game, game.currentTurn)

\* C14: in a playing game outside test mode, an accepted pass that leaves
\* every card-holder other than the last player to play in the passed set
\* closes the round in that step (pile empty, family null, pass tally and
\* passed set reset, turn to the last player to play if it holds cards,
\* otherwise to the next card-holder after it); every other accepted pass only
\* moves the turn to the next card-holder and keeps pile and family.
C14_PassClosesRound ==
  \A g \in playingGames :
    \A p \in callersOf(games[g]) :
      pass(service, g, p).result = "ok" =>
        passAsClaimed(games[g], p, pass(service, g, p).st.games[g])

----------------------------------------------------------------------------
\* C15: in every reachable state the pass tally of a game is the number of
\* distinct players in its passed set, and an accepted pass by a player that
\* is already in the passed set does not increase the tally.
C15_PassCountedOnce ==
  \A g \in DOMAIN games :
    /\ games[g].passCount = Cardinality(Range(games[g].passedPlayerIds))
    /\ Len(games[g].passedPlayerIds) = Cardinality(Range(games[g].passedPlayerIds))
    /\ \A p \in Range(games[g].passedPlayerIds) :
         pass(service, g, p).result = "ok" =>
           pass(service, g, p).st.games[g].passCount <= games[g].passCount

\* C15 witness: in a playing game a pass was accepted from a player that had
\* passed before in the round: it has the turn again, is still in the passed
\* set, and the tally counts it once.
C15_Witness ==
  \E g \in liveGames :
    /\ last.op \in {"pass", "turnTimeout"} /\ last.result = "ok"
    /\ games[g].status = "playing"
    /\ games[g].passCount >= 1
    /\ \E p \in Range(games[g].passedPlayerIds) :
         /\ hasTurn(games[g], p)
         /\ pass(service, g, p).result = "ok"
         /\ pass(service, g, p).st.games[g].passedPlayerIds = games[g].passedPlayerIds

----------------------------------------------------------------------------
\* the seats of a game that hold a title
holders(game, title) == {i \in 1..Len(game.players) : game.players[i].title = title}

\* the seats that hold King, Wise or Civilian
rankedSeats(game) == {i \in 1..Len(game.players) :
                        game.players[i].title \in {"King", "Wise", "Civilian"}}

\* at most one King, one Wise and one Beggar; Wise only under a King and
\* Civilian only under a Wise
titlesOrdered(game) ==
  /\ Cardinality(holders(game, "King")) <= 1
  /\ Cardinality(holders(game, "Wise")) <= 1
  /\ Cardinality(holders(game, "Beggar")) <= 1
  /\ holders(game, "Wise") # {} => holders(game, "King") # {}
  /\ holders(game, "Civilian") # {} => holders(game, "Wise") # {}

\* the ids of the seats, in seating order
seatIds(game) == [i \in 1..Len(game.players) |-> game.players[i].id]

\* C16 as stated: in every reachable state of every game at most one seat
\* holds King, at most one Wise and at most one Beggar, a Wise exists only if
\* a King exists and a Civilian only if a Wise exists.
C16_TitlesOrderedAlways == \A g \in DOMAIN games : titlesOrdered(games[g])

\* a step that keeps the seats of a game keeps its titles ordered, and a seat
\* that receives King, Wise or Civilian in the step receives the title of its
\* finishing position: King after no one, Wise after one, Civilian after more
C16_Step ==
  /\ \A g \in (DOMAIN games') \ (DOMAIN games) :
       \A i \in 1..Len(games'[g].players) : games'[g].players[i].title = Null
  /\ \A g \in (DOMAIN games) \cap (DOMAIN games') :
    (titlesOrdered(games[g]) /\ seatIds(games'[g]) = seatIds(games[g])) =>
      /\ titlesOrdered(games'[g])
      /\ \A i \in rankedSeats(games'[g]) \ rankedSeats(games[g]) :
           /\ Len(games'[g].players[i].hand) = 0
           /\ games'[g].players[i].title =
                titleFor(Cardinality(rankedSeats(games[g])))

\* C16 amended: a newly created game has no title, and every command that
\* removes no seat keeps the titles ordered (at most one King, one Wise, one
\* Beggar, Wise only with a King, Civilian only with a Wise) and awards King,
\* Wise, Civilian in finishing order; a seat that leaves the summary of a
\* finished game takes its title with it, so a Wise can remain without a King.
C16_TitlesInFinishingOrder == [][C16_Step]_vars

\* C16 witness: a play has just finished a game whose seats hold King, Wise
\* and Beggar.
C16_Witness ==
  \E g \in DOMAIN games :
    /\ last.op = "playPattern"
    /\ games[g].status = "finished"
    /\ holders(games[g], "King") # {}
    /\ holders(games[g], "Wise") # {}
    /\ holders(games[g], "Beggar") # {}
    /\ \E k \in holders(games[g], "King") : \E w \in holders(games[g], "Wise") :
         Len(games[g].players[k].hand) = 0 /\ Len(games[g].players[w].hand) = 0

----------------------------------------------------------------------------
\* the seats of a game that hold cards
cardHolders(game) == {i \in 1..Len(game.players) : Len(game.players[i].hand) > 0}

\* a game of at least three seats in which exactly one seat holds cards
loneHolder(game) == Len(game.players) >= MIN_PLAYERS /\ Cardinality(cardHolders(game)) = 1

\* C17: in a game of at least three seats, an accepted play that leaves
\* exactly one seat holding cards leaves that seat titled Beggar, its hand not
\* empty, and the game finished; and no playing game of at least three seats
\* has exactly one seat holding cards.
C17_LoneHolderIsBeggar ==
  /\ \A o \in Offers :
       (accepted(o) /\ loneHolder(answer(o).st.games[o.gameId])) =>
         LET after == answer(o).st.games[o.gameId]
         IN /\ after.status = "finished"
            /\ \A i \in cardHolders(after) : after.players[i].title = "Beggar"
  /\ \A g \in DOMAIN games :
       games[g].status = "playing" => ~loneHolder(games[g])

----------------------------------------------------------------------------
\* every seat of the game has a title
allTitled(game) == \A i \in 1..Len(game.players) : game.players[i].title # Null

\* C18: for every registered game, status is 'finished' exactly when every
\* seat has a title: no finished game has an untitled seat and no game whose
\* seats all have titles is still playing.
C18_FinishedIffAllTitled ==
  \A g \in DOMAIN games :
    games[g].status = "finished" <=> allTitled(games[g])

----------------------------------------------------------------------------
\* the answers of the service to the commands the clients may send in a
\* state: join, start, restart, play, pass, the two leaves and hand reorder
answers ==
  UNION {
    {joinGame(service, g, name) : name \in Names}
    \cup {answer(o) : o \in {x \in Offers : x.gameId = g}}
    \cup UNION {
         {startGameManually(service, g, p, 0), restartGame(service, g, p, 0),
          pass(service, g, p), leaveGame(service, g, p),
          leaveGameFromSummary(service, g, p)}
         \cup {updateHandOrder(service, g, p, hand) : hand \in OrderInputs(g, p)}
         : p \in (IF hasGame(games, g) THEN callersOf(games[g]) ELSE {}) \cup {Stranger}}
    : g \in GameIds}

\* C19: a join, start, play, pass, restart, leave or hand-reorder command
\* that is rejected (null) leaves every field of every game unchanged.
C19_RejectedChangesNothing ==
  \A out \in answers : out.result = "null" => out.st.games = games

\* C19 witness: a game is being played with cards on the pile, and in this
\* state a join, a start, a restart, an out-of-turn play and pass, a leave by
\* a stranger and a hand reorder with a missing card are all rejected.
C19_Witness ==
  \E g \in playingGames :
    /\ games[g].pile # <<>>
    /\ currentInRange(games[g])
    /\ joinGame(service, g, NamePool[1]).result = "null"
    /\ \E p \in callersOf(games[g]) :
         /\ ~hasTurn(games[g], p)
         /\ handOf(games[g], p) # <<>>
         /\ startGameManually(service, g, p, 0).result = "null"
         /\ restartGame(service, g, p, 0).result = "null"
         /\ pass(service, g, p).result = "null"
         /\ \E o \in Offers : o.gameId = g /\ o.playerId = p /\ answer(o).result = "null"
         /\ updateHandOrder(service, g, p, Tail(handOf(games[g], p))).result = "null"
    /\ leaveGame(service, g, Stranger).result = "null"
    /\ leaveGameFromSummary(service, g, Stranger).result = "null"

----------------------------------------------------------------------------
\* the pending turn timer of gameId was armed for a player who is not the
\* current player of the game its callback watches
staleTimer(gameId) ==
  LET timer == turnTimers[gameId]
  IN IF timer.fate = "live"
     THEN ~hasTurn(games[gameId], timer.playerId)
     ELSE timer.fate # "pass"

\* C20: when the turn timer of a game expires and the player it was armed
\* for is no longer the current player, the expiry is discarded: no pass is
\* applied, no game changes, no timer is armed and the service keeps running.
C20_StaleExpiryChangesNothing ==
  \A g \in DOMAIN turnTimers :
    staleTimer(g) =>
      LET out == turnTimeout(service, g)
      IN /\ out.result = "null"
         /\ out.st.games = games
         /\ out.st.botTimers = botTimers
         /\ out.st.turnTimers = drop(turnTimers, g)

----------------------------------------------------------------------------
\* the game watched by the pending turn timer of gameId is not being played:
\* it has left the registry (ended by a leave), or its status is not 'playing'
timerOfEndedGame(gameId) ==
  \/ turnTimers[gameId].fate # "live"
  \/ ~hasGame(games, gameId)
  \/ games[gameId].status # "playing"

\* C21: when the turn timer of a game that is no longer being played expires,
\* nothing changes: no game of the registry is modified (currentTurn, pass
\* tally, passed set included) and the service keeps running.
C21_EndedGameTimerChangesNothing ==
  \A g \in DOMAIN turnTimers :
    timerOfEndedGame(g) =>
      LET out == turnTimeout(service, g)
      IN out.result # "throw" /\ out.st.games = games

----------------------------------------------------------------------------
\* C22: every game outside test mode that is being played has a pending turn
\* timer (one per game, the service keeps one handle per game id) and that
\* timer is armed for the current player.
C22_OneTimerForCurrentPlayer ==
  \A g \in playingGames :
    /\ g \in DOMAIN turnTimers
    /\ turnTimers[g].fate = "live"
    /\ hasTurn(games[g], turnTimers[g].playerId)

----------------------------------------------------------------------------
\* the game is being played outside test mode and seat k has the turn
turnOf(gameId, k) ==
  /\ hasGame(games, gameId)
  /\ ~games[gameId].isTestMode
  /\ games[gameId].status = "playing"
  /\ games[gameId].currentTurn = k

\* the turn timer of the game is pending and armed for the current player
timerArmed(gameId) ==
  /\ gameId \in DOMAIN turnTimers
  /\ turnTimers[gameId].fate = "live"
  /\ hasTurn(games[gameId], turnTimers[gameId].playerId)

\* C23: once the players of a playing game outside test mode send no more
\* commands while the turn timer is armed for the current player, the timer
\* alone ends that player's turn: currentTurn eventually changes or the game
\* is no longer being played.
C23_TimerEndsTurn ==
  \A g \in GameIds : \A k \in 0..(MIN_PLAYERS - 1) :
    (quiet /\ turnOf(g, k) /\ timerArmed(g)) ~> ~turnOf(g, k)

----------------------------------------------------------------------------
\* the callers of a command on gameId: every seat of the game and a caller
\* that is not seated
anyCaller(gameId) ==
  (IF hasGame(games, gameId) THEN callersOf(games[gameId]) ELSE {}) \cup {Stranger}

\* restart may be accepted: the game exists and is finished, the caller is
\* seated and some seat holds Wise
restartable(gameId, playerId) ==
  /\ hasGame(games, gameId)
  /\ games[gameId].status = "finished"
  /\ seated(games[gameId], playerId)
  /\ holders(games[gameId], "Wise") # {}

\* the state of a game right after a restart of the game before
restarted(before, after) ==
  /\ after.status = "playing"
  /\ \A i \in 1..Len(after.players) : after.players[i].title = Null
  /\ after.pile = <<>>
  /\ after.currentPattern = Null
  /\ after.passCount = 0
  /\ after.passedPlayerIds = <<>>
  /\ seatIds(after) = seatIds(before)
  /\ \A id \in idsOf(createDeck) : Count(handIds(after, 1), id) = 1
  /\ Len(handIds(after, 1)) = Len(createDeck)
  /\ after.currentTurn + 1 \in holders(before, "Wise")

\* C24: restart is accepted exactly when the game exists, is finished, the
\* caller is seated and a seat holds Wise; after it the game is playing with
\* no titles, an empty pile, no family, no passes, a fresh deck dealt out
\* completely and the turn at the seat that held Wise.
C24_Restart ==
  \A g \in GameIds : \A p \in anyCaller(g) :
    LET out == restartGame(service, g, p, 0)
    IN /\ (out.result = "ok") <=> restartable(g, p)
       /\ out.result \in {"ok", "null"}
       /\ out.result = "ok" => restarted(games[g], out.st.games[g])

\* C24 witness: a finished game has just been restarted: it is playing, no
\* seat has a title, the whole deck is in the hands and the pile is empty.
C24_Witness ==
  \E g \in liveGames :
    /\ last = Command("restartGame", "ok")
    /\ games[g].status = "playing"
    /\ games[g].pile = <<>>
    /\ \A i \in 1..Len(games[g].players) :
         games[g].players[i].title = Null /\ games[g].players[i].hand # <<>>
    /\ Len(handIds(games[g], 1)) = Len(createDeck)
    /\ games[g].currentTurn > 0

----------------------------------------------------------------------------
\* after is before without the seat of playerId: the other seats keep their
\* order, hands and titles, and no other field changes
seatRemoved(before, after, playerId) ==
  LET k == seatOf(before, playerId) + 1
  IN /\ Len(after.players) = Len(before.players) - 1
     /\ \A i \in 1..Len(after.players) :
          after.players[i] = before.players[IF i < k THEN i ELSE i + 1]
     /\ [after EXCEPT !.players = before.players] = before

\* the answer out to a leave of playerId from the finished game gameId: only
\* that seat is removed, and the game leaves the registry exactly when it was
\* the last seat
leftSummary(out, gameId, playerId) ==
  /\ out.result = "ok"
  /\ hasGame(out.st.games, gameId) <=> Len(games[gameId].players) > 1
  /\ hasGame(out.st.games, gameId) =>
       seatRemoved(games[gameId], out.st.games[gameId], playerId)

\* C25: a leave by a seated player removes a game that is not finished from
\* the registry; on a finished game the leave (and the leave from the
\* summary screen) removes only the caller's seat, keeps the other seats and
\* titles, and removes the game exactly when no seat remains; every
\* registered game has at least one seat.
C25_Leave ==
  \A g \in DOMAIN games :
    /\ Len(games[g].players) >= 1
    /\ \A p \in Range(seatIds(games[g])) :
         IF games[g].status # "finished"
         THEN /\ leaveGame(service, g, p).result = "ok"
              /\ ~hasGame(leaveGame(service, g, p).st.games, g)
         ELSE /\ leftSummary(leaveGame(service, g, p), g, p)
              /\ leftSummary(leaveGameFromSummary(service, g, p), g, p)

\* C25 witness: a seat has just left a finished game, and the seats that
\* remain in the registered game still hold their titles.
C25_Witness ==
  \E g \in DOMAIN games :
    /\ last = Command("leaveGame", "ok")
    /\ games[g].status = "finished"
    /\ Len(games[g].players) = MIN_PLAYERS - 1
    /\ allTitled(games[g])
    /\ holders(games[g], "Beggar") # {}

----------------------------------------------------------------------------
\* a step keeps the seats, and their order, of every game that is being
\* played and stays in the registry
C26_Step ==
  \A g \in (DOMAIN games) \cap (DOMAIN games') :
    games[g].status = "playing" => seatIds(games'[g]) = seatIds(games[g])

\* C26: while a game is being played no command (join, leave, leave from the
\* summary screen) adds, removes or reorders a seat of the game as long as
\* it stays in the registry.
C26_SeatsFixedWhilePlaying == [][C26_Step]_vars

-----------------------------------------------------------------------------
joinable(gameId, playerName) ==
  /\ hasGame(games, gameId)
  /\ games[gameId].status = "waiting"
  /\ Len(games[gameId].players) < MAX_PLAYERS
  /\ \A i \in 1..Len(games[gameId].players) : games[gameId].players[i].name # playerName

seatNames(game) == [i \in 1..Len(game.players) |-> game.players[i].name]

\* C27: joinGame adds a seat exactly when the game exists, is 'waiting', has
\* fewer than MAX_PLAYERS seats and no seat has the name: the seat is appended
\* with that name, an empty hand and no title, and nothing else changes; in
\* every other case joinGame returns null and the registry is unchanged; and
\* no registered game has two seats of the same name.
C27_Join ==
  /\ \A g \in GameIds : \A playerName \in Range(NamePool) :
       LET out == joinGame(service, g, playerName)
       IN IF joinable(g, playerName)
          THEN /\ out.result = "ok"
               /\ out.st.games =
                    put(games, g,
                        [games[g] EXCEPT !.players =
                           Append(@, Player(playerIdOf(g, playerName), playerName, FALSE))])
               /\ seatNames(out.st.games[g]) = Append(seatNames(games[g]), playerName)
          ELSE /\ out.result = "null"
               /\ out.st.games = games
  /\ \A g \in DOMAIN games :
       \A i, j \in 1..Len(games[g].players) :
         games[g].players[i].name = games[g].players[j].name => i = j

\* C27 witness: a join has just taken the last free seat of a waiting game,
\* and the game now refuses a name that no seat has as well as a seated name.
C27_Witness ==
  \E g \in DOMAIN games :
    /\ last = Command("join", "ok")
    /\ games[g].status = "waiting"
    /\ Len(games[g].players) = MAX_PLAYERS
    /\ \E playerName \in Range(NamePool) :
         /\ ~nameTaken(games[g], playerName)
         /\ joinGame(service, g, playerName).result = "null"
    /\ joinGame(service, g, games[g].players[1].name).result = "null"

-----------------------------------------------------------------------------
startable(gameId, playerId) ==
  /\ hasGame(games, gameId)
  /\ games[gameId].status = "waiting"
  /\ Len(games[gameId].players) >= MIN_PLAYERS
  /\ Len(games[gameId].players) <= MAX_PLAYERS
  /\ playerId \in Range(seatIds(games[gameId]))

\* a start command answers a Game exactly when the game is waiting, has
\* MIN_PLAYERS to MAX_PLAYERS seats and the caller is seated; any other start
\* is answered null and leaves the registry and the timers as they were
C28_StartAnswers ==
  \A g \in GameIds :
    \A p \in {Stranger} \cup (IF hasGame(games, g) THEN Range(seatIds(games[g])) ELSE {}) :
      LET out == startGameManually(service, g, p, 0)
      IN IF startable(g, p)
         THEN /\ out.result = "ok"
              /\ out.st.games[g].status = "playing"
         ELSE /\ out.result = "null"
              /\ out.st = service

\* a game outside test mode that was waiting and is now being played was
\* started by the start command of one of its seats, with MIN_PLAYERS to
\* MAX_PLAYERS seats; and no game outside test mode enters the registry
\* already being played
C28_Step ==
  \A g \in DOMAIN games' :
    (~games'[g].isTestMode /\ games'[g].status = "playing") =>
      /\ g \in DOMAIN games
      /\ games[g].status = "waiting" =>
           /\ last' = Command("startGame", "ok")
           /\ Len(games[g].players) >= MIN_PLAYERS
           /\ Len(games[g].players) <= MAX_PLAYERS
           /\ \E p \in Range(seatIds(games[g])) :
                games' = startGameManually(service, g, p, 0).st.games

\* C28: outside test mode a game goes from 'waiting' to 'playing' only
\* through a start command sent by one of its seats while it has MIN_PLAYERS
\* to MAX_PLAYERS seats, and every other start command (too few or too many
\* seats, a caller that is not seated, a game that is not waiting) is
\* rejected and changes nothing.
C28_StartOnlyBySeat == []C28_StartAnswers /\ [][C28_Step]_vars

\* C28 witness: a full table outside test mode has just been started by a
\* seat, and a second start of it by the same seat is refused.
C28_Witness ==
  \E g \in DOMAIN games :
    /\ last = Command("startGame", "ok")
    /\ ~games[g].isTestMode
    /\ games[g].status = "playing"
    /\ Len(games[g].players) = MAX_PLAYERS
    /\ startGameManually(service, g, games[g].players[1].id, 0).result = "null"

-----------------------------------------------------------------------------
\* a step that seats one more player at a waiting table and fills it leaves
\* the game started: being played, every card but the details card dealt,
\* the turn at a seat that holds cards
C29_Step ==
  \A g \in (DOMAIN games) \cap (DOMAIN games') :
    (/\ games[g].status = "waiting"
     /\ ~games[g].isSinglePlayer
     /\ Len(games'[g].players) = Len(games[g].players) + 1
     /\ Len(games'[g].players) = MAX_PLAYERS) =>
      /\ games'[g].status = "playing"
      /\ \E i \in 1..Len(games'[g].players) : games'[g].players[i].hand # <<>>
      /\ currentInRange(games'[g])

\* C29: when a join brings a waiting multi-player game to MAX_PLAYERS seats,
\* the game is started in that same step (status 'playing', cards dealt,
\* first turn computed) without a start command.
C29_FullTableStarts == [][C29_Step]_vars

-----------------------------------------------------------------------------
\* a card as it can be played: a joker under every rank and suit
bindings(card) ==
  IF card.isJoker
  THEN {createJokerCard(card, rank, suit) : rank \in Range(Ranks), suit \in Range(Suits)}
  ELSE {card}

\* the plays made of the given cards in the given order
RECURSIVE everyBinding(_)
everyBinding(cards) ==
  IF cards = <<>> THEN {<<>>}
  ELSE {<<c>> \o rest : c \in bindings(cards[1]), rest \in everyBinding(Tail(cards))}

\* the subsets of a hand that hold a card, in the order of the hand
subHands(hand) ==
  {Filter(hand, [i \in 1..Len(hand) |-> i \in S]) : S \in (SUBSET (1..Len(hand))) \ {{}}}

\* some cards of the hand, under some binding of the jokers, are a play that
\* validatePattern accepts
hasLegalPlay(hand, prevPattern, currentPattern) ==
  \E cards \in subHands(hand) :
    \E play \in everyBinding(cards) : validatePattern(play, prevPattern, currentPattern)

\* C30: when the bot's search returns no candidate, and the bot passes, no
\* subset of its hand under any binding of its jokers to a rank and a suit is
\* a play that validatePattern accepts against the top of the pile and the
\* family of the round.
C30_NoCandidateNoLegalPlay ==
  (bout.done /\ bout.validPatterns = <<>>) => ~hasLegalPlay(bin.hand, bin.prev, bin.family)

-----------------------------------------------------------------------------
\* how many cards of each identity a list of cards holds
idBag(cards) == [id \in idsOf(cards) |-> Count(cardIds(cards), id)]

\* everything of a game but the hands
tableOf(game) ==
  [pile |-> game.pile, currentTurn |-> game.currentTurn,
   currentPattern |-> game.currentPattern, passCount |-> game.passCount,
   passedPlayerIds |-> game.passedPlayerIds,
   lastPlayedPlayerId |-> game.lastPlayedPlayerId, status |-> game.status,
   deck |-> game.deck, seats |-> seatIds(game),
   titles |-> [i \in 1..Len(game.players) |-> game.players[i].title]]

\* C39: updateHandOrder is accepted exactly when the caller is seated and the
\* submitted hand holds the same card identities, each as often, as the
\* caller's hand; an accepted reorder gives the caller the submitted hand,
\* leaves every seat with the card identities it held, and leaves the pile,
\* currentTurn, the family, the pass tracking, the status and the timers
\* unchanged; a rejected one changes nothing.
C39_Reorder ==
  \A g \in DOMAIN games : \A p \in callersOf(games[g]) : \A hand \in OrderInputs(g, p) :
    LET out == updateHandOrder(service, g, p, hand)
        fits == seated(games[g], p) /\ idBag(hand) = idBag(handOf(games[g], p))
    IN IF fits
       THEN /\ out.result = "ok"
            /\ handOf(out.st.games[g], p) = hand
            /\ \A q \in Range(seatIds(games[g])) :
                 /\ idBag(handOf(out.st.games[g], q)) = idBag(handOf(games[g], q))
                 /\ q # p => handOf(out.st.games[g], q) = handOf(games[g], q)
            /\ tableOf(out.st.games[g]) = tableOf(games[g])
            /\ out.st.turnTimers = turnTimers
            /\ out.st.botTimers = botTimers
       ELSE /\ out.result = "null"
            /\ out.st = service

\* C39 witness: the first seat of a game that is being played has just put
\* its hand of several cards in a new order, and a hand that lacks a card or
\* holds a card twice would be refused.
C39_Witness ==
  \E g \in DOMAIN games :
    /\ last = Command("updateHandOrder", "ok")
    /\ games[g].status = "playing"
    /\ games[g].pile # <<>>
    /\ LET playerHand == games[g].players[1].hand
           p == games[g].players[1].id
       IN /\ Len(playerHand) >= 2
          /\ playerHand[1] # playerHand[Len(playerHand)]
          /\ updateHandOrder(service, g, p, Tail(playerHand)).result = "null"
          /\ updateHandOrder(service, g, p,
                             [playerHand EXCEPT ![1] = playerHand[Len(playerHand)]]).result
               = "null"

-----------------------------------------------------------------------------
\* the turn and the pass tracking of a game
turnAndPasses(game) ==
  [currentTurn |-> game.currentTurn, passCount |-> game.passCount,
   passedPlayerIds |-> game.passedPlayerIds]

\* the command was answered null and the game kept its turn and its pass
\* tracking
refusedKeeping(out, gameId) ==
  /\ out.result = "null"
  /\ hasGame(out.st.games, gameId)
  /\ turnAndPasses(out.st.games[gameId]) = turnAndPasses(games[gameId])

\* C35: a pass or a play submitted for a game whose status is 'waiting' or
\* 'finished' is rejected and leaves currentTurn, passCount and
\* passedPlayerIds unchanged.
C35_OnlyWhilePlaying ==
  \A g \in DOMAIN games :
    games[g].status # "playing" =>
      \A p \in callersOf(games[g]) :
        /\ refusedKeeping(pass(service, g, p), g)
        /\ \A input \in PlayInputs(g, p) :
             refusedKeeping(playPattern(service, g, p, input.cards, input.hand), g)

-----------------------------------------------------------------------------
\* no pass is recorded and no family is set
freshRound(game) ==
  /\ game.passCount = 0
  /\ game.passedPlayerIds = <<>>
  /\ game.currentPattern = Null

\* C36: in every game outside test mode that is being played, an empty pile
\* comes with a fresh round: passCount is 0, passedPlayerIds is empty and the
\* family is null.
C36_EmptyPileIsFreshRound ==
  \A g \in playingGames : games[g].pile = <<>> => freshRound(games[g])

----------------------------------------------------------------------------
\* seat c is the first seat after seat s, in cyclic seat order, whose hand is
\* not empty in game (0-based seats; s itself comes last)
firstHolderAfter(game, s, c) ==
  LET n == Len(game.players)
      d == ((c - s - 1 + n) % n) + 1
  IN /\ c >= 0 /\ c < n
     /\ Len(game.players[c + 1].hand) > 0
     /\ \A e \in 1..(d - 1) : Len(game.players[((s + e) % n) + 1].hand) = 0

\* C32: in a playing game outside test mode, after an accepted play that does
\* not finish the game, and after an accepted pass that does not close the
\* round, currentTurn is the first seat after the acting player, in cyclic
\* seat order, whose hand is not empty.
C32_TurnToNextHolder ==
  \A g \in playingGames :
    /\ \A o \in {x \in Offers : x.gameId = g} :
         (accepted(o) /\ answer(o).st.games[g].status # "finished") =>
           firstHolderAfter(answer(o).st.games[g], seatOf(games[g], o.playerId),
                            answer(o).st.games[g].currentTurn)
    /\ \A p \in callersOf(games[g]) :
         (pass(service, g, p).result = "ok" /\ ~roundCloses(recordPass(games[g], p))) =>
           firstHolderAfter(pass(service, g, p).st.games[g], seatOf(games[g], p),
                            pass(service, g, p).st.games[g].currentTurn)

----------------------------------------------------------------------------
\* the single-player games that are being played with a bot at the turn and
\* the bot timer pending for it
botTurns ==
  {g \in playingGames :
     /\ games[g].isSinglePlayer
     /\ currentInRange(games[g])
     /\ currentPlayer(games[g]).isBot
     /\ g \in DOMAIN botTimers
     /\ botTimers[g].playerId = currentPlayer(games[g]).id}

\* the bot at the turn opens a fresh round: empty pile and no pass recorded
botOpensRound(g) == Len(games[g].pile) = 0 /\ games[g].passCount = 0

\* what the bot timer of g does when it fires with the given draw
botTurn(g, draw) ==
  playBotTurn(clearBotTimer(service, g), g, botTimers[g].playerId, draw)

\* the play of cards by playerId was accepted: it is the pile of the new round
opened(game, playerId, cards) ==
  game.pile = <<cards>> /\ game.lastPlayedPlayerId = playerId /\ cards # <<>>

\* C31: when the bot timer fires for a bot that is the current player at a
\* fresh round (empty pile, no pass recorded), the bot never passes: for
\* every hand and for both outcomes of the random strategic-pass draw it
\* selects a play, and the play is accepted.
C31_BotOpensWithPlay ==
  \A g \in botTurns :
    botOpensRound(g) =>
      \A draw \in BOOLEAN :
        /\ botGuard(service, g, botTimers[g].playerId) = "run"
        /\ botSelection(games[g], draw) # <<>>
        /\ botTurn(g, draw).result = "ok"
        /\ opened(botTurn(g, draw).st.games[g], botTimers[g].playerId,
                  botSelection(games[g], draw))

----------------------------------------------------------------------------
\* the turn of the bot of g that selected the play sel is as C33 says
botTurnAsClaimed(g, draw, sel) ==
  LET st == clearBotTimer(service, g)
      botId == botTimers[g].playerId
  IN /\ botGuard(st, g, botId) = "run"
     /\ sel # <<>> =>
          /\ botOffer(st, g, botId, sel).result = "ok"
          /\ playBotTurn(st, g, botId, draw) = botOffer(st, g, botId, sel)
     /\ sel = <<>> => playBotTurn(st, g, botId, draw) = pass(st, g, botId)

\* C33: when the bot timer fires for the bot at the turn, the bot runs, and
\* every play it selects from its own enumeration is accepted by playPattern:
\* the turn ends with one accepted play, or with one pass attempt when
\* nothing is selected, and never with a forced pass after a refused play.
C33_BotPlayAccepted ==
  \A g \in botTurns : \A draw \in BOOLEAN :
    botTurnAsClaimed(g, draw, botSelection(games[g], draw))

----------------------------------------------------------------------------
\* C34: a 'playPattern' or 'pass' event that is rejected cancels no timer:
\* the turn timers and the bot timers pending before the event are pending
\* after it, so a playing game whose current player is a bot keeps its bot
\* timer.
C34_Step ==
  (last'.op \in {"playPattern", "pass"} /\ last'.result = "null") =>
    /\ turnTimers' = turnTimers
    /\ botTimers' = botTimers

C34_RejectedKeepsTimers == [][C34_Step]_vars

----------------------------------------------------------------------------
\* C37: whenever a turn timer or a bot timer is pending for a game id, that
\* id is in the registry with status 'playing'.
C37_TimersOnlyWhilePlaying ==
  \A g \in (DOMAIN turnTimers) \cup (DOMAIN botTimers) :
    hasGame(games, g) /\ games[g].status = "playing"

----------------------------------------------------------------------------
\* a game that is being played reaches status 'finished'
DutifulPlayFinishes ==
  \A g \in GameIds :
    (g \in playingGames) ~> (hasGame(games, g) /\ games[g].status = "finished")

\* the move of the dutiful player at turn changes the game: it has a legal
\* play, or its pass is accepted and moves the turn or closes the round
dutyMoves(g) ==
  /\ currentInRange(games[g])
  /\ \/ legalPlays(g) # {}
     \/ /\ dutyPass(g).result = "ok"
        /\ dutyPass(g).st.games[g] # games[g]

\* C38: from every playing state of a game outside test mode, when the
\* current player always eventually submits a legal play if it has one and
\* passes otherwise, the game reaches status 'finished': no playing state is
\* one in which plays and passes go on for ever or get stuck.  A playing
\* state in which the current player has no legal play and its pass leaves
\* the game as it is repeats for ever, so in every playing state the
\* dutiful move changes the game.
C38_DutifulPlayFinishes ==
  \A g \in playingGames : dutyMoves(g)
====
